---- MODULE Spec2Model ----
(***************************************************************************)
(* Procurement intelligence tool: the heat-score engine (src/scoring.py),  *)
(* the opportunity store it reads and writes (src/database.py), the        *)
(* discovery step that creates opportunities (src/discovery.py) and the    *)
(* web routes that touch the same rows (web/app.py).                       *)
(*                                                                         *)
(* Units.  Scores are decimal numbers with one decimal place; they are     *)
(* kept as integers in tenths (93.0 is 930).  Weights are kept in          *)
(* hundredths (0.35 is 35), so a weighted sum of tenths is in thousandths. *)
(* Keyword weights and severity multipliers are kept in tenths.            *)
(***************************************************************************)
EXTENDS Integers, Sequences, FiniteSets, TLC

(***************************************************************************)
(* Bounds of the model.                                                    *)
(***************************************************************************)
MaxOpps == 2
MaxArticles == 1
MaxDay == 8
DayStep == 8
MaxManual == 1
MaxScoreLog == 2
MaxHeat == 1000
NumWorkers == 2

\* Python's None / SQL NULL: a text column holds the string None, a numeric
\* value that may be missing is a sequence, empty when missing.
None == "None"

Null == <<>>

Some(x) == <<x>>

Val(v) == v[1]

(***************************************************************************)
(* ScoringEngine class constants.                                          *)
(***************************************************************************)
Factors == <<"keyword_score", "recency", "article_count", "severity", "entity_size">>

\* The weights of the first two factors exchanged.
WEIGHTS_Exchanged ==
  [keyword_score |-> 25, recency |-> 35, article_count |-> 15,
   severity |-> 15, entity_size |-> 10]

WEIGHTS ==
  [keyword_score |-> 35, recency |-> 25, article_count |-> 15,
   severity |-> 15, entity_size |-> 10]

IssueTypes == {"legal", "procurement", "ethics", "audit", "budget"}

SEVERITY_MULTIPLIERS ==
  [legal |-> 15, procurement |-> 13, ethics |-> 12, audit |-> 11, budget |-> 10]

Priorities == {"urgent", "high", "medium", "low"}

PRIORITY_THRESHOLDS ==
  [urgent |-> 850, high |-> 700, medium |-> 400, low |-> 0]

(***************************************************************************)
(* Arithmetic helpers.                                                     *)
(***************************************************************************)
Min(a, b) == IF a <= b THEN a ELSE b

Max(a, b) == IF a >= b THEN a ELSE b

\* round(x, 1) of Python on the float x whose exact value is n/d: the
\* nearest tenth.  When n/d lies exactly between two tenths the float x lies
\* a rounding error above or below it, and round follows the float: half_up
\* says which, and the callers take both.
Round1(n, d, half_up) ==
  LET q == n \div d
      r == n % d
  IN  IF 2 * r > d \/ (2 * r = d /\ half_up) THEN q + 1 ELSE q

\* The sides there are to take: both on an exact half, else one.
HalfSides(n, d) == IF 2 * (n % d) = d THEN BOOLEAN ELSE {FALSE}

\* The ladder with every boundary day on the lower step.
calculate_recency_score_strict(first_detected, today) ==
  IF first_detected = Null THEN 50
  ELSE LET days_old == today - Val(first_detected)
       IN  IF days_old < 7 THEN 100
           ELSE IF days_old < 14 THEN 90
           ELSE IF days_old < 30 THEN 75
           ELSE IF days_old < 60 THEN 50
           ELSE IF days_old < 90 THEN 30
           ELSE 10

(***************************************************************************)
(* Sub-scores (whole numbers 0..100).                                      *)
(***************************************************************************)
\* first_detected is the day number of the timestamp, Null when falsy.
calculate_recency_score(first_detected, today) ==
  IF first_detected = Null THEN 50
  ELSE LET days_old == today - Val(first_detected)
       IN  IF days_old <= 7 THEN 100
           ELSE IF days_old <= 14 THEN 90
           ELSE IF days_old <= 30 THEN 75
           ELSE IF days_old <= 60 THEN 50
           ELSE IF days_old <= 90 THEN 30
           ELSE 10

\* The ladder with every threshold on the lower step.
calculate_article_count_score_strict(article_count) ==
  IF article_count > 10 THEN 100
  ELSE IF article_count > 5 THEN 80
  ELSE IF article_count > 3 THEN 60
  ELSE IF article_count > 2 THEN 40
  ELSE 20

calculate_article_count_score(article_count) ==
  IF article_count >= 10 THEN 100
  ELSE IF article_count >= 5 THEN 80
  ELSE IF article_count >= 3 THEN 60
  ELSE IF article_count >= 2 THEN 40
  ELSE 20

calculate_severity_score(issue_type) ==
  LET multiplier == IF issue_type \in DOMAIN SEVERITY_MULTIPLIERS
                    THEN SEVERITY_MULTIPLIERS[issue_type] ELSE 10
  IN  Min(100, (70 * multiplier) \div 10)

\* entity is a row with columns population and annual_budget.
calculate_entity_size_score(entity) ==
  LET population == IF entity.population = Null THEN 0 ELSE Val(entity.population)
      budget == IF entity.annual_budget = Null THEN 0 ELSE Val(entity.annual_budget)
      pop_score == IF population >= 500000 THEN 100
                   ELSE IF population >= 200000 THEN 80
                   ELSE IF population >= 100000 THEN 60
                   ELSE IF population >= 50000 THEN 40
                   ELSE 20
      budget_score == IF budget >= 1000000000 THEN 100
                      ELSE IF budget >= 500000000 THEN 80
                      ELSE IF budget >= 100000000 THEN 60
                      ELSE IF budget > 0 THEN 40
                      ELSE 0
  IN  IF budget_score > 0 /\ pop_score > 0
      THEN (pop_score + budget_score) \div 2
      ELSE IF budget_score > 0 THEN Max(pop_score, budget_score) ELSE pop_score

(***************************************************************************)
(* calculate_heat_score.                                                   *)
(***************************************************************************)
\* The five sub-scores in tenths.  The keyword score is read from the
\* opportunity row's heat_score column.
SubScores(opportunity, article_count_rows, entity, today) ==
  [keyword_score |-> opportunity.heat_score,
   recency |-> 10 * calculate_recency_score(opportunity.first_detected, today),
   article_count |->
     10 * calculate_article_count_score(
            IF article_count_rows > 0 THEN article_count_rows ELSE 1),
   severity |-> 10 * calculate_severity_score(opportunity.issue_type),
   entity_size |-> IF entity.exists
                   THEN 10 * calculate_entity_size_score(entity)
                   ELSE 500]

RECURSIVE WeightedSum(_, _)
WeightedSum(scores, i) ==
  IF i > Len(Factors) THEN 0
  ELSE scores[Factors[i]] * WEIGHTS[Factors[i]] + WeightedSum(scores, i + 1)

\* In thousandths.
TotalScore(opportunity, article_count_rows, entity, today) ==
  WeightedSum(SubScores(opportunity, article_count_rows, entity, today), 1)

\* articles and entity are what the caller fetched: the number of article
\* rows, and the entity row (exists = FALSE for "no entity").
calculate_heat_score(opportunity, article_count_rows, entity, today, half_up) ==
  Round1(
    Min(100000, Max(0, TotalScore(opportunity, article_count_rows, entity, today))),
    100, half_up)

(***************************************************************************)
(* determine_priority: the thresholds sorted by value, descending, the     *)
(* first one the score reaches wins.                                       *)
(***************************************************************************)
RECURSIVE SortedDesc(_)
SortedDesc(S) ==
  IF S = {} THEN <<>>
  ELSE LET top == CHOOSE p \in S :
                    \A q \in S : PRIORITY_THRESHOLDS[p] >= PRIORITY_THRESHOLDS[q]
       IN  <<top>> \o SortedDesc(S \ {top})

\* The comparison made strict: a score on a threshold falls below it.
RECURSIVE FirstReachedStrict(_, _, _)
FirstReachedStrict(order, i, heat_score) ==
  IF i > Len(order) THEN "low"
  ELSE IF heat_score > PRIORITY_THRESHOLDS[order[i]] THEN order[i]
  ELSE FirstReachedStrict(order, i + 1, heat_score)

RECURSIVE FirstReached(_, _, _)
FirstReached(order, i, heat_score) ==
  IF i > Len(order) THEN "low"
  ELSE IF heat_score >= PRIORITY_THRESHOLDS[order[i]] THEN order[i]
  ELSE FirstReached(order, i + 1, heat_score)

PriorityOrder == SortedDesc(DOMAIN PRIORITY_THRESHOLDS)

determine_priority(heat_score) == FirstReached(PriorityOrder, 1, heat_score)

(***************************************************************************)
(* Keyword pass of the discovery engine (analyze_content).  A text is      *)
(* given by what pattern.findall returns on it: the number of matches of   *)
(* each keyword.  The keyword table is a part of the seeded one, in the    *)
(* order get_all_keywords returns it (weight descending).                  *)
(***************************************************************************)
Keywords ==
  << [keyword |-> "procurement fraud", category |-> "procurement", weight |-> 25],
     [keyword |-> "missing funds", category |-> "audit", weight |-> 20],
     [keyword |-> "lawsuit", category |-> "legal", weight |-> 13] >>

\* The texts the model feeds to the discovery engine.
Contents ==
  { <<0, 0, 1>>, <<0, 1, 0>>, <<4, 1, 3>>, <<9, 0, 0>> }

\* The keyword tables the engine is loaded with: the seeded one, and two
\* with a keyword that counts against a text, each in the order
\* get_all_keywords returns it.
KeywordTables ==
  { Keywords,
    << [keyword |-> "procurement fraud", category |-> "procurement", weight |-> 25],
       [keyword |-> "missing funds", category |-> "audit", weight |-> 20],
       [keyword |-> "lawsuit", category |-> "legal", weight |-> -13] >>,
    << [keyword |-> "missing funds", category |-> "audit", weight |-> 20],
       [keyword |-> "lawsuit", category |-> "legal", weight |-> 13],
       [keyword |-> "procurement fraud", category |-> "procurement", weight |-> -25] >> }

\* total_score: score = kw['weight'] * match_count, summed over the keywords.
RECURSIVE TotalScoreOf(_, _, _)
TotalScoreOf(keywords, content, i) ==
  IF i > Len(keywords) THEN 0
  ELSE keywords[i].weight * content[i] + TotalScoreOf(keywords, content, i + 1)

CategoryScoreOf(keywords, content, category) ==
  LET RECURSIVE Sum(_)
      Sum(i) == IF i > Len(keywords) THEN 0
                ELSE (IF keywords[i].category = category
                      THEN keywords[i].weight * content[i] ELSE 0) + Sum(i + 1)
  IN  Sum(1)

\* The same choice taking, of the categories with the greatest score, the
\* one that entered the dict last.
IssueTypeInLast(keywords, content) ==
  LET matched == {i \in 1..Len(keywords) : content[i] > 0}
  IN  IF matched = {} THEN None
      ELSE LET last == CHOOSE i \in matched :
                  /\ \A j \in matched :
                       CategoryScoreOf(keywords, content, keywords[i].category)
                         >= CategoryScoreOf(keywords, content, keywords[j].category)
                  /\ \A j \in matched :
                       (j > i) =>
                         CategoryScoreOf(keywords, content, keywords[j].category)
                           < CategoryScoreOf(keywords, content, keywords[i].category)
           IN  keywords[last].category

\* max(category_scores, key=category_scores.get): the first category, in the
\* order the categories entered the dict, that has the greatest score.
IssueTypeIn(keywords, content) ==
  LET matched == {i \in 1..Len(keywords) : content[i] > 0}
  IN  IF matched = {} THEN None
      ELSE LET first == CHOOSE i \in matched :
                  /\ \A j \in matched :
                       CategoryScoreOf(keywords, content, keywords[i].category)
                         >= CategoryScoreOf(keywords, content, keywords[j].category)
                  /\ \A j \in matched :
                       (j < i) =>
                         CategoryScoreOf(keywords, content, keywords[j].category)
                           < CategoryScoreOf(keywords, content, keywords[i].category)
           IN  keywords[first].category

\* The normalisation without its upper limit.
analyze_content_unclamped(keywords, content) ==
  [heat_score |-> TotalScoreOf(keywords, content, 1) * 5,
   issue_type |-> IssueTypeIn(keywords, content)]

\* analyze_content of an engine loaded with the table keywords:
\* (heat_score in tenths, issue_type), heat_score = min(100, total_score * 5).
analyze_content_with(keywords, content) ==
  [heat_score |-> Min(1000, TotalScoreOf(keywords, content, 1) * 5),
   issue_type |-> IssueTypeIn(keywords, content)]

\* The same for the seeded table.
RawTotal(content, i) == TotalScoreOf(Keywords, content, i)

CategoryScore(content, category) == CategoryScoreOf(Keywords, content, category)

IssueTypeOf(content) == IssueTypeIn(Keywords, content)

analyze_content(content) == analyze_content_with(Keywords, content)

(***************************************************************************)
(* The store.  A table is a function from ids to rows; a row that does not *)
(* exist has exists = FALSE.  Of the opportunity columns, title, summary   *)
(* and attack_brief are left out: the scoring engine never reads them.     *)
(***************************************************************************)
OppIds == 1..MaxOpps

\* Ids a caller may pass: MaxOpps + 1 never names a row.
CallIds == 1..(MaxOpps + 1)

EntityIds == {1, 2}

ArticleIds == 1..MaxArticles

ActivityTypes ==
  {"opportunity_created", "score_updated", "status_change",
   "priority_change", "note_added"}

NoOpportunity ==
  [exists |-> FALSE, entity_id |-> 1, heat_score |-> 0, status |-> None,
   priority |-> None, issue_type |-> None, first_detected |-> Null,
   last_activity |-> 0, notes |-> None]

NoEntity == [exists |-> FALSE, population |-> Null, annual_budget |-> Null]

\* Entity 1 is seeded with a population (Brevard county); entity 2 is first
\* seen in an article.
SeededEntities ==
  [e \in EntityIds |->
     IF e = 1
     THEN [exists |-> TRUE, population |-> Some(606612), annual_budget |-> Null]
     ELSE NoEntity]

VARIABLES
  opportunities,         \* table opportunities: id -> row
  entities,              \* table entities: id -> row
  articles,              \* table articles: the ids that have a row
  opportunity_articles,  \* table opportunity_articles: <<opportunity, article>>
  activity_log,          \* table activity_log: <<opportunity, type>> -> rows
  now,                   \* the current day
  discovered,            \* id -> keyword score process_article computed for it
  manual_calls,          \* number of requests served by the update route
  last_call,             \* the operation that ran last, its arguments and result
  probe,                 \* input and output of a scoring function applied alone
  workers                \* the recalculations in progress: position and locals

vars ==
  <<opportunities, entities, articles, opportunity_articles, activity_log, now,
    discovered, manual_calls, last_call, probe, workers>>

NoProbe == [fn |-> None]

WorkerIds == 1..NumWorkers

\* A thread that has not called recalculate_all_scores.
IdleWorker ==
  [pc |-> "idle", queue |-> <<>>, updated_count |-> 0, new_score |-> 0,
   new_priority |-> None]

StoreInit ==
  /\ opportunities = [o \in OppIds |-> NoOpportunity]
  /\ entities = SeededEntities
  /\ articles = {}
  /\ opportunity_articles = {}
  /\ activity_log = [k \in OppIds \X ActivityTypes |-> 0]
  /\ now = 0
  /\ discovered = [o \in OppIds |-> Null]
  /\ manual_calls = 0
  /\ last_call = [op |-> "init"]
  /\ workers = [w \in WorkerIds |-> IdleWorker]

Init == StoreInit /\ probe = NoProbe

(***************************************************************************)
(* Accessors of database.py, on a store value.                             *)
(***************************************************************************)
\* SELECT ... FROM opportunities o JOIN entities e ON o.entity_id = e.id
get_opportunity(opps, opportunity_id) ==
  IF /\ opportunity_id \in OppIds
     /\ opps[opportunity_id].exists
     /\ entities[opps[opportunity_id].entity_id].exists
  THEN opps[opportunity_id]
  ELSE NoOpportunity

get_entity(entity_id) == entities[entity_id]

\* Number of rows the join of articles with opportunity_articles returns.
get_opportunity_articles(opportunity_id) ==
  Cardinality({a \in articles : <<opportunity_id, a>> \in opportunity_articles})

valid_fields == {"heat_score", "status", "priority", "issue_type", "notes"}

\* An update that resets the columns it is not given: status back to 'new',
\* notes back to NULL.
update_opportunity_resetting(opps, opportunity_id, kwargs) ==
  IF DOMAIN kwargs \cap valid_fields = {} THEN opps
  ELSE IF ~(opportunity_id \in OppIds /\ opps[opportunity_id].exists) THEN opps
  ELSE [opps EXCEPT ![opportunity_id] =
          [f \in DOMAIN opps[opportunity_id] |->
             IF f \in DOMAIN kwargs \cap valid_fields THEN kwargs[f]
             ELSE IF f = "last_activity" THEN now
             ELSE IF f = "status" THEN "new"
             ELSE IF f = "notes" THEN None
             ELSE opps[opportunity_id][f]]]

\* UPDATE opportunities SET <fields>, last_activity = CURRENT_TIMESTAMP
\* WHERE id = ?; kwargs is a record of the columns to set.
update_opportunity(opps, opportunity_id, kwargs) ==
  IF DOMAIN kwargs \cap valid_fields = {} THEN opps
  ELSE IF ~(opportunity_id \in OppIds /\ opps[opportunity_id].exists) THEN opps
  ELSE [opps EXCEPT ![opportunity_id] =
          [f \in DOMAIN opps[opportunity_id] |->
             IF f \in DOMAIN kwargs \cap valid_fields THEN kwargs[f]
             ELSE IF f = "last_activity" THEN now
             ELSE opps[opportunity_id][f]]]

add_activity_log(log, opportunity_id, activity_type) ==
  [log EXCEPT ![<<opportunity_id, activity_type>>] = @ + 1]

\* The model stops before the log holds more than MaxScoreLog score_updated
\* rows of one opportunity.
LogFits(log) == \A o \in OppIds : log[<<o, "score_updated">>] <= MaxScoreLog

(***************************************************************************)
(* ScoringEngine.update_opportunity_score on a store value.  fault: a      *)
(* database call of the fetch phase raises (sqlite3.Error); the exception  *)
(* is not handled here and leaves the call before anything is written.     *)
(* Result: the store after the call, how the call ended (outcome:          *)
(* "returned" with the opportunity, "not_found" for return None, "raised"  *)
(* when an exception left it), the values it computed and whether it       *)
(* executed the UPDATE.                                                    *)
(***************************************************************************)
\* The test with its effect removed: every id is taken for a row.
NotFoundNever(opportunity) == FALSE

\* if not opportunity: return None
NotFound(opportunity) == ~opportunity.exists

\* The change test looking at the score alone.
ScoreChangedScoreOnly(opportunity, new_score, new_priority) ==
  new_score # opportunity.heat_score

\* The change test always answering yes: a write on every call.
ScoreChangedAlways(opportunity, new_score, new_priority) == TRUE

\* if new_score != opportunity['heat_score'] or
\*    new_priority != opportunity['priority']
ScoreChanged(opportunity, new_score, new_priority) ==
  new_score # opportunity.heat_score \/ new_priority # opportunity.priority

update_opportunity_score(opps, log, opportunity_id, fault, half_up) ==
  LET opportunity == get_opportunity(opps, opportunity_id)
      nothing == [outcome |-> "not_found", opps |-> opps, log |-> log,
                  wrote |-> FALSE, keyword_in |-> 0, heat_score |-> 0,
                  priority |-> None]
  IN  IF fault THEN [nothing EXCEPT !.outcome = "raised"]
      ELSE IF NotFound(opportunity) THEN nothing
      ELSE
        LET n_articles == get_opportunity_articles(opportunity_id)
            entity == get_entity(opportunity.entity_id)
            new_score == calculate_heat_score(opportunity, n_articles, entity, now, half_up)
            new_priority == determine_priority(new_score)
            changed == ScoreChanged(opportunity, new_score, new_priority)
        IN  [outcome |-> "returned",
             opps |-> IF changed
                      THEN update_opportunity(opps, opportunity_id,
                             [heat_score |-> new_score, priority |-> new_priority])
                      ELSE opps,
             log |-> IF changed
                     THEN add_activity_log(log, opportunity_id, "score_updated")
                     ELSE log,
             wrote |-> changed,
             keyword_in |->
               SubScores(opportunity, n_articles, entity, now).keyword_score,
             heat_score |-> new_score,
             priority |-> new_priority]

\* The sides the rounding of the score of a row can take.
RoundingSides(opps, opportunity_id) ==
  LET opportunity == get_opportunity(opps, opportunity_id)
  IN  IF NotFound(opportunity) THEN {FALSE}
      ELSE HalfSides(
             Min(100000,
                 Max(0, TotalScore(opportunity,
                                   get_opportunity_articles(opportunity_id),
                                   get_entity(opportunity.entity_id), now))),
             100)

\* A single call of update_opportunity_score that returns.
UpdateOpportunityScore(opportunity_id) ==
  \E half_up \in RoundingSides(opportunities, opportunity_id) :
  LET r == update_opportunity_score(opportunities, activity_log, opportunity_id,
                                    FALSE, half_up)
  IN  /\ LogFits(r.log)
      /\ opportunities' = r.opps
      /\ activity_log' = r.log
      /\ last_call' = [op |-> "update_opportunity_score", id |-> opportunity_id,
                       outcome |-> r.outcome, wrote |-> r.wrote,
                       keyword_in |-> r.keyword_in,
                       heat_score |-> r.heat_score, priority |-> r.priority]
      /\ UNCHANGED <<entities, articles, opportunity_articles, now, discovered,
                     manual_calls, probe, workers>>

(***************************************************************************)
(* get_all_opportunities: the ids of the rows the join returns, ORDER BY   *)
(* heat_score DESC, last_activity DESC; rows equal in both come in any     *)
(* order.                                                                  *)
(***************************************************************************)
Listed(opps) == {o \in OppIds : get_opportunity(opps, o).exists}

get_all_opportunities(opps) ==
  LET S == Listed(opps)
      n == Cardinality(S)
      Before(a, b) ==
        \/ opps[a].heat_score > opps[b].heat_score
        \/ /\ opps[a].heat_score = opps[b].heat_score
           /\ opps[a].last_activity >= opps[b].last_activity
  IN  {order \in [1..n -> S] :
         /\ \A i, j \in 1..n : i # j => order[i] # order[j]
         /\ \A i, j \in 1..n : i < j => Before(order[i], order[j])}

(***************************************************************************)
(* ScoringEngine.recalculate_all_scores: the loop over the list fetched    *)
(* first; old_score is the score in that list.  faulty: the record whose   *)
(* fetch raises, 0 when no call does.  half_ups: for each record, the side *)
(* its rounding takes on an exact half.  st carries the store, the count   *)
(* and what the run did.                                                   *)
(***************************************************************************)
RECURSIVE RecalculateLoop(_, _, _, _, _, _)
RecalculateLoop(order, old_scores, i, faulty, half_ups, st) ==
  IF i > Len(order) THEN [st EXCEPT !.outcome = "returned"]
  ELSE
    LET id == order[i]
        r == update_opportunity_score(st.opps, st.log, id, id = faulty, half_ups[id])
    IN  IF r.outcome = "raised"
        THEN [st EXCEPT !.outcome = "raised"]
        ELSE RecalculateLoop(order, old_scores, i + 1, faulty, half_ups,
               [st EXCEPT
                  !.opps = r.opps,
                  !.log = r.log,
                  !.updated_count =
                    IF r.outcome = "returned" /\ r.heat_score # old_scores[id]
                    THEN @ + 1 ELSE @,
                  !.visited = @ \cup {id},
                  !.written = IF r.wrote THEN @ \cup {id} ELSE @])

recalculate_all_scores(order, faulty, half_ups) ==
  RecalculateLoop(order, [o \in OppIds |-> opportunities[o].heat_score], 1, faulty,
    half_ups,
    [opps |-> opportunities, log |-> activity_log, updated_count |-> 0,
     visited |-> {}, written |-> {}, outcome |-> "running"])

RecalculateAllScores(faulty) ==
  \E order \in get_all_opportunities(opportunities),
     half_ups \in {f \in [OppIds -> BOOLEAN] :
                    \A o \in OppIds : f[o] \in RoundingSides(opportunities, o)} :
    LET st == recalculate_all_scores(order, faulty, half_ups)
    IN  /\ LogFits(st.log)
        /\ opportunities' = st.opps
        /\ activity_log' = st.log
        /\ last_call' = [op |-> "recalculate_all_scores", outcome |-> st.outcome,
                         updated_count |-> st.updated_count,
                         faulty |-> faulty,
                         listed |-> Listed(opportunities),
                         visited |-> st.visited, written |-> st.written]
        /\ UNCHANGED <<entities, articles, opportunity_articles, now, discovered,
                       manual_calls, probe, workers>>

(***************************************************************************)
(* DiscoveryEngine.process_article.  Inputs: the url (the article it       *)
(* names), whether the page can be fetched, its text (as match counts)     *)
(* and the entities extract_entities finds in it, in order.  The           *)
(* article_keywords rows it writes are left out: nothing modelled reads    *)
(* them.  A url is processed once, as in run_discovery (processed_urls).   *)
(***************************************************************************)
EntityLists ==
  {ents \in UNION {[1..k -> EntityIds] : k \in 0..MaxOpps} :
     \A i, j \in DOMAIN ents : i # j => ents[i] # ents[j]}

\* INSERT OR IGNORE INTO entities: a new row has no population and no budget.
create_entity(ents_table, entity_id) ==
  IF ents_table[entity_id].exists THEN ents_table
  ELSE [ents_table EXCEPT ![entity_id] =
          [exists |-> TRUE, population |-> Null, annual_budget |-> Null]]

\* INSERT INTO opportunities: process_article passes no status and no
\* priority, so both get the defaults of create_opportunity.
create_opportunity(entity_id, heat_score, issue_type) ==
  [exists |-> TRUE, entity_id |-> entity_id, heat_score |-> heat_score,
   status |-> "new", priority |-> "medium", issue_type |-> issue_type,
   first_detected |-> Some(now), last_activity |-> now, notes |-> None]

NumOpportunities == Cardinality({o \in OppIds : opportunities[o].exists})

\* The writes of process_article once the article passed both tests.
CreateFromArticle(url, analysis, ents) ==
  LET n == NumOpportunities
      created == (n + 1)..(n + Len(ents))
  IN  /\ articles' = articles \cup {url}
      /\ entities' =
           [e \in EntityIds |->
              IF \E i \in DOMAIN ents : ents[i] = e
              THEN create_entity(entities, e)[e] ELSE entities[e]]
      /\ opportunities' =
           [o \in OppIds |->
              IF o \in created
              THEN create_opportunity(ents[o - n], analysis.heat_score,
                                      analysis.issue_type)
              ELSE opportunities[o]]
      /\ opportunity_articles' =
           opportunity_articles \cup {<<o, url>> : o \in created}
      /\ activity_log' =
           [k \in DOMAIN activity_log |->
              IF k[1] \in created /\ k[2] = "opportunity_created"
              THEN activity_log[k] + 1 ELSE activity_log[k]]
      /\ discovered' =
           [o \in OppIds |->
              IF o \in created THEN Some(analysis.heat_score) ELSE discovered[o]]
      /\ last_call' = [op |-> "process_article", outcome |-> "created",
                       created |-> created]

\* Every early return of process_article: nothing is written.
RejectArticle(reason) ==
  /\ UNCHANGED <<opportunities, entities, articles, opportunity_articles,
                 activity_log, discovered>>
  /\ last_call' = [op |-> "process_article", outcome |-> reason, created |-> {}]

\* The inputs are read in the order of the code: the page, then its text,
\* then the entities in it.
ProcessArticleWith(keywords, url) ==
  /\ url \notin articles
  /\ \/ RejectArticle("fetch_failed")
     \/ \E content \in Contents :
          LET analysis == analyze_content_with(keywords, content)
          IN  IF analysis.heat_score < 100
              THEN RejectArticle("below_threshold")
              ELSE \E ents \in EntityLists :
                     /\ NumOpportunities + Len(ents) <= MaxOpps
                     /\ IF ents = <<>>
                        THEN RejectArticle("no_entities")
                        ELSE CreateFromArticle(url, analysis, ents)
  /\ UNCHANGED <<now, manual_calls, probe, workers>>

\* The engine as the application builds it, on the seeded table.
ProcessArticle(url) == ProcessArticleWith(Keywords, url)

\* Time passes: DayStep days.
Tick ==
  /\ now + DayStep <= MaxDay
  /\ now' = now + DayStep
  /\ last_call' = [op |-> "tick"]
  /\ UNCHANGED <<opportunities, entities, articles, opportunity_articles,
                 activity_log, discovered, manual_calls, probe, workers>>

(***************************************************************************)
(* web/app.py, route /opportunity/<id>/update.  A form field that is empty *)
(* or absent is None.  The form is posted from the page of an opportunity  *)
(* that exists.                                                            *)
(***************************************************************************)
Forms ==
  { [status |-> "contacted", priority |-> "urgent", notes |-> None],
    [status |-> None, priority |-> "low", notes |-> "text"] }

ManualUpdate(opportunity_id, status, priority, notes) ==
  LET given == (IF status # None THEN {"status"} ELSE {})
               \cup (IF priority # None THEN {"priority"} ELSE {})
               \cup (IF notes # None THEN {"notes"} ELSE {})
      updates == [f \in given |->
                    IF f = "status" THEN status
                    ELSE IF f = "priority" THEN priority ELSE notes]
      Logged(k) ==
        IF k[1] = opportunity_id
           /\ \/ (k[2] = "status_change" /\ status # None)
              \/ (k[2] = "priority_change" /\ priority # None)
              \/ (k[2] = "note_added" /\ notes # None)
        THEN 1 ELSE 0
  IN  /\ manual_calls < MaxManual
      /\ opportunities[opportunity_id].exists
      /\ manual_calls' = manual_calls + 1
      /\ opportunities' = IF given = {} THEN opportunities
                          ELSE update_opportunity(opportunities, opportunity_id, updates)
      /\ activity_log' = [k \in DOMAIN activity_log |-> activity_log[k] + Logged(k)]
      /\ last_call' = [op |-> "update_opportunity_route", id |-> opportunity_id]
      /\ UNCHANGED <<entities, articles, opportunity_articles, now, discovered,
                     probe, workers>>

(***************************************************************************)
(* The program, one call at a time.                                        *)
(***************************************************************************)
Next ==
  \/ \E url \in ArticleIds : ProcessArticle(url)
  \/ Tick
  \/ \E id \in CallIds : UpdateOpportunityScore(id)
  \/ \E faulty \in {0} \cup OppIds : RecalculateAllScores(faulty)
  \/ \E id \in OppIds, form \in Forms :
       ManualUpdate(id, form.status, form.priority, form.notes)

Spec == Init /\ [][Next]_vars

(***************************************************************************)
(* recalculate_all_scores run by several threads at once (requests to the  *)
(* /api/recalculate_scores route, the scoring module run as a script), one *)
(* database statement at a time, next to the other requests.  A worker     *)
(* holds the list it fetched                                               *)
(* (id and old_score of each row still to do), the count, and between the  *)
(* comparison and the writes the values it computed.                       *)
(***************************************************************************)
\* opportunities = db.get_all_opportunities(); updated_count = 0
BeginRecalculation(w) ==
  /\ workers[w].pc = "idle"
  /\ \E order \in get_all_opportunities(opportunities) :
       workers' = [workers EXCEPT ![w] =
                     [IdleWorker EXCEPT
                        !.pc = "fetch",
                        !.queue = [i \in DOMAIN order |->
                                     <<order[i], opportunities[order[i]].heat_score>>]]]
  /\ last_call' = [op |-> "recalculation_step", worker |-> w]
  /\ UNCHANGED <<opportunities, entities, articles, opportunity_articles,
                 activity_log, now, discovered, manual_calls, probe>>

\* The end of one turn of the loop: the count and the next record.
NextRecord(worker, returned_score) ==
  [worker EXCEPT
     !.pc = "fetch",
     !.queue = Tail(@),
     !.updated_count = IF returned_score # Null
                          /\ Val(returned_score) # Head(worker.queue)[2]
                       THEN @ + 1 ELSE @,
     !.new_score = 0,
     !.new_priority = None]

\* update_opportunity_score up to the comparison: the reads and the
\* computation.
FetchAndCompute(w) ==
  /\ workers[w].pc = "fetch"
  /\ workers[w].queue # <<>>
  /\ LET opportunity_id == Head(workers[w].queue)[1]
         opportunity == get_opportunity(opportunities, opportunity_id)
     IN  IF NotFound(opportunity)
         THEN workers' = [workers EXCEPT ![w] = NextRecord(@, Null)]
         ELSE \E half_up \in RoundingSides(opportunities, opportunity_id) :
                LET new_score ==
                      calculate_heat_score(opportunity,
                        get_opportunity_articles(opportunity_id),
                        get_entity(opportunity.entity_id), now, half_up)
                    new_priority == determine_priority(new_score)
                IN  workers' =
                      [workers EXCEPT ![w] =
                         IF ScoreChanged(opportunity, new_score, new_priority)
                         THEN [@ EXCEPT !.pc = "write", !.new_score = new_score,
                                        !.new_priority = new_priority]
                         ELSE NextRecord(@, Some(new_score))]
  /\ last_call' = [op |-> "recalculation_step", worker |-> w]
  /\ UNCHANGED <<opportunities, entities, articles, opportunity_articles,
                 activity_log, now, discovered, manual_calls, probe>>

\* db.update_opportunity(opportunity_id, heat_score=..., priority=...)
WriteScore(w) ==
  /\ workers[w].pc = "write"
  /\ opportunities' =
       update_opportunity(opportunities, Head(workers[w].queue)[1],
         [heat_score |-> workers[w].new_score, priority |-> workers[w].new_priority])
  /\ workers' = [workers EXCEPT ![w].pc = "log"]
  /\ last_call' = [op |-> "recalculation_step", worker |-> w]
  /\ UNCHANGED <<entities, articles, opportunity_articles, activity_log, now,
                 discovered, manual_calls, probe>>

\* db.add_activity_log(opportunity_id, 'score_updated', ...), and the return.
WriteLog(w) ==
  /\ workers[w].pc = "log"
  /\ activity_log' =
       add_activity_log(activity_log, Head(workers[w].queue)[1], "score_updated")
  /\ workers' = [workers EXCEPT ![w] = NextRecord(@, Some(workers[w].new_score))]
  /\ last_call' = [op |-> "recalculation_step", worker |-> w]
  /\ UNCHANGED <<opportunities, entities, articles, opportunity_articles, now,
                 discovered, manual_calls, probe>>

\* return updated_count
FinishRecalculation(w) ==
  /\ workers[w].pc = "fetch"
  /\ workers[w].queue = <<>>
  /\ workers' = [workers EXCEPT ![w].pc = "done"]
  /\ last_call' = [op |-> "recalculation_step", worker |-> w]
  /\ UNCHANGED <<opportunities, entities, articles, opportunity_articles,
                 activity_log, now, discovered, manual_calls, probe>>

NextConc ==
  \/ \E url \in ArticleIds : ProcessArticle(url)
  \/ \E w \in WorkerIds : BeginRecalculation(w)
  \/ \E w \in WorkerIds : FetchAndCompute(w)
  \/ \E w \in WorkerIds : WriteScore(w)
  \/ \E w \in WorkerIds : WriteLog(w)
  \/ \E w \in WorkerIds : FinishRecalculation(w)
  \/ \E id \in OppIds, form \in Forms :
       ManualUpdate(id, form.status, form.priority, form.notes)

SpecConc == Init /\ [][NextConc]_vars

(***************************************************************************)
(* Discovery and scoring on any keyword table: the engine reads the table  *)
(* when it is built, here one of KeywordTables.                            *)
(***************************************************************************)
InitTable ==
  /\ StoreInit
  /\ probe \in {[fn |-> "keywords", keywords |-> t] : t \in KeywordTables}

NextTable ==
  \/ \E url \in ArticleIds : ProcessArticleWith(probe.keywords, url)
  \/ \E id \in OppIds : UpdateOpportunityScore(id)
  \/ Tick

SpecTable == InitTable /\ [][NextTable]_vars

(***************************************************************************)
(* The entity-size factor alone: the entity the caller fetched, absent or  *)
(* with any population and budget, and the score calculate_heat_score      *)
(* takes for it.                                                           *)
(***************************************************************************)
PopulationInputs ==
  {Null} \cup {Some(p) : p \in {0, 49999, 50000, 99999, 100000, 199999,
                                200000, 499999, 500000, 606612}}

BudgetInputs ==
  {Null} \cup {Some(b) : b \in {0, 1, 99999999, 100000000, 499999999,
                                500000000, 999999999, 1000000000, 2000000000}}

EntitySizeInputs ==
  {NoEntity}
    \cup {[exists |-> TRUE, population |-> p, annual_budget |-> b] :
            p \in PopulationInputs, b \in BudgetInputs}

\* entity_size = self.calculate_entity_size_score(entity) if entity else 50
entity_size_score(entity) ==
  IF entity.exists THEN calculate_entity_size_score(entity) ELSE 50

InitEntitySize ==
  /\ StoreInit
  /\ probe \in {[fn |-> "entity_size", entity |-> e, score |-> Null] :
                 e \in EntitySizeInputs}

ApplyEntitySizeScore ==
  /\ probe.fn = "entity_size"
  /\ probe.score = Null
  /\ probe' = [probe EXCEPT !.score = Some(entity_size_score(probe.entity))]
  /\ UNCHANGED <<opportunities, entities, articles, opportunity_articles,
                 activity_log, now, discovered, manual_calls, last_call,
                 workers>>

NextEntitySize == ApplyEntitySizeScore

SpecEntitySize == InitEntitySize /\ [][NextEntitySize]_vars

(***************************************************************************)
(* RFPDiscoveryEngine.calculate_relevance.  The table is rfp_keywords in   *)
(* the order get_rfp_keywords returns it (weight descending), weights in   *)
(* tenths: five of the seeded rows and one row of weight 0.4 added to the  *)
(* table afterwards, without which no text totals 1.9.  A text is the      *)
(* number of times each keyword occurs in title and description.           *)
(***************************************************************************)
MaxOccurrences == 2

RfpKeywords ==
  << [keyword |-> "application rationalization", category |-> "it_consulting", weight |-> 30],
     [keyword |-> "IT assessment", category |-> "it_consulting", weight |-> 25],
     [keyword |-> "IT consulting", category |-> "it_consulting", weight |-> 20],
     [keyword |-> "HRIS", category |-> "software", weight |-> 15],
     [keyword |-> "dashboard", category |-> "data", weight |-> 15],
     [keyword |-> "help desk", category |-> "software", weight |-> 4] >>

RfpTexts == [1..Len(RfpKeywords) -> 0..MaxOccurrences]

\* The same loop adding the weight once for every occurrence.
RECURSIVE RfpTotalScorePerOccurrence(_, _)
RfpTotalScorePerOccurrence(text, i) ==
  IF i > Len(RfpKeywords) THEN 0
  ELSE RfpKeywords[i].weight * text[i] + RfpTotalScorePerOccurrence(text, i + 1)

\* if info['pattern'].search(text): total_score += info['weight']
RECURSIVE RfpTotalScore(_, _)
RfpTotalScore(text, i) ==
  IF i > Len(RfpKeywords) THEN 0
  ELSE (IF text[i] > 0 THEN RfpKeywords[i].weight ELSE 0) + RfpTotalScore(text, i + 1)

\* matched_categories[cat]
RfpCategoryScore(text, category) ==
  LET RECURSIVE Sum(_)
      Sum(i) == IF i > Len(RfpKeywords) THEN 0
                ELSE (IF RfpKeywords[i].category = category /\ text[i] > 0
                      THEN RfpKeywords[i].weight ELSE 0) + Sum(i + 1)
  IN  Sum(1)

\* max(matched_categories, key=matched_categories.get): the first category,
\* in the order the categories entered the dict, with the greatest sum.
RfpPrimaryCategory(text) ==
  LET matched == {i \in 1..Len(RfpKeywords) : text[i] > 0}
  IN  IF matched = {} THEN None
      ELSE LET first == CHOOSE i \in matched :
                  /\ \A j \in matched :
                       RfpCategoryScore(text, RfpKeywords[i].category)
                         >= RfpCategoryScore(text, RfpKeywords[j].category)
                  /\ \A j \in matched :
                       (j < i) =>
                         RfpCategoryScore(text, RfpKeywords[j].category)
                           < RfpCategoryScore(text, RfpKeywords[i].category)
           IN  RfpKeywords[first].category

\* The same with the threshold itself left out: relevant above 2.0 only.
calculate_relevance_above(text) ==
  [is_relevant |-> RfpTotalScore(text, 1) > 20,
   score |-> RfpTotalScore(text, 1),
   category |-> RfpPrimaryCategory(text)]

\* (is_relevant, total_score, primary_category), total_score in tenths.
calculate_relevance(text) ==
  [is_relevant |-> RfpTotalScore(text, 1) >= 20,
   score |-> RfpTotalScore(text, 1),
   category |-> RfpPrimaryCategory(text)]

InitRelevance ==
  /\ StoreInit
  /\ probe \in {[fn |-> "calculate_relevance", text |-> t, result |-> Null] :
                 t \in RfpTexts}

ApplyCalculateRelevance ==
  /\ probe.fn = "calculate_relevance"
  /\ probe.result = Null
  /\ probe' = [probe EXCEPT !.result = Some(calculate_relevance(probe.text))]
  /\ UNCHANGED <<opportunities, entities, articles, opportunity_articles,
                 activity_log, now, discovered, manual_calls, last_call,
                 workers>>

NextRelevance == ApplyCalculateRelevance

SpecRelevance == InitRelevance /\ [][NextRelevance]_vars

(***************************************************************************)
(* The two keyword scorers of free text: KeywordScorer.score_text          *)
(* (ai_scoring.py) and DiscoveryEngine.analyze_content (discovery.py).  A  *)
(* text is the number of occurrences of each keyword of the table.         *)
(* score_text works in hundredths of a point: a weight of w tenths found n *)
(* times scores weight * (1 + 0.2 * (n - 1)) = 2 * w * (n + 4) hundredths. *)
(* analyze_content stays in tenths as above.                               *)
(***************************************************************************)
\* all_keywords in dict order (high value, medium value, negative), five of
\* its entries, none a substring of another.
ScorerKeywords ==
  << [keyword |-> "application rationalization", weight |-> 50],
     [keyword |-> "hris", weight |-> 35],
     [keyword |-> "consulting", weight |-> 20],
     [keyword |-> "modernization", weight |-> 25],
     [keyword |-> "mowing", weight |-> -50] >>

\* text_lower.count(keyword.lower()): the counts a text may have.
ScorerCounts == {0, 1, 3, 21, 46}

ScorerTexts == [1..Len(ScorerKeywords) -> ScorerCounts]

\* keyword_score = weight * (1 + 0.2 * (count - 1))
keyword_score(weight, count) == 2 * weight * (count + 4)

\* matches before sorting: one entry for each keyword with count > 0.
RECURSIVE ScorerMatches(_, _)
ScorerMatches(text, i) ==
  IF i > Len(ScorerKeywords) THEN <<>>
  ELSE (IF text[i] > 0
        THEN << [keyword |-> ScorerKeywords[i].keyword, count |-> text[i],
                 score |-> keyword_score(ScorerKeywords[i].weight, text[i])] >>
        ELSE <<>>) \o ScorerMatches(text, i + 1)

RECURSIVE SumScores(_)
SumScores(matches) ==
  IF matches = <<>> THEN 0 ELSE Head(matches).score + SumScores(Tail(matches))

\* sorted(matches, key=lambda x: x['score'], reverse=True): stable, equal
\* scores keep their order.
RECURSIVE SortByScore(_)
SortByScore(matches) ==
  IF matches = <<>> THEN <<>>
  ELSE LET first == CHOOSE i \in DOMAIN matches :
                      /\ \A j \in DOMAIN matches : matches[i].score >= matches[j].score
                      /\ \A j \in DOMAIN matches :
                           (j < i) => matches[j].score < matches[i].score
           rest == SubSeq(matches, 1, first - 1)
                     \o SubSeq(matches, first + 1, Len(matches))
       IN  <<matches[first]>> \o SortByScore(rest)

\* (normalized_score, matches) and the local total_score, in hundredths:
\* normalized_score = min(100, max(0, (total_score / 25) * 100)).
score_text(text) ==
  LET matches == ScorerMatches(text, 1)
      total_score == SumScores(matches)
  IN  [total_score |-> total_score,
       normalized_score |-> Min(10000, Max(0, 4 * total_score)),
       matches |-> SortByScore(matches)]

\* matched_keywords of analyze_content, in table order, scores in tenths.
RECURSIVE matched_keywords(_, _, _)
matched_keywords(keywords, content, i) ==
  IF i > Len(keywords) THEN <<>>
  ELSE (IF content[i] > 0
        THEN << [keyword |-> keywords[i].keyword, count |-> content[i],
                 score |-> keywords[i].weight * content[i]] >>
        ELSE <<>>) \o matched_keywords(keywords, content, i + 1)

AnalyzeCounts == {0, 1, 3}

AnalyzeTexts == [1..Len(Keywords) -> AnalyzeCounts]

InitTextScorer ==
  /\ StoreInit
  /\ probe \in
       {[fn |-> "score_text", keywords |-> ScorerKeywords, text |-> t,
         result |-> Null] : t \in ScorerTexts}
       \cup {[fn |-> "analyze_content", keywords |-> k, text |-> t,
               result |-> Null] : k \in KeywordTables, t \in AnalyzeTexts}

ApplyScoreText ==
  /\ probe.fn = "score_text"
  /\ probe.result = Null
  /\ probe' = [probe EXCEPT !.result = Some(score_text(probe.text))]
  /\ UNCHANGED <<opportunities, entities, articles, opportunity_articles,
                 activity_log, now, discovered, manual_calls, last_call,
                 workers>>

ApplyAnalyzeContent ==
  /\ probe.fn = "analyze_content"
  /\ probe.result = Null
  /\ probe' =
       [probe EXCEPT !.result =
          Some([total_score |-> TotalScoreOf(probe.keywords, probe.text, 1),
                normalized_score |->
                  analyze_content_with(probe.keywords, probe.text).heat_score,
                matches |-> matched_keywords(probe.keywords, probe.text, 1)])]
  /\ UNCHANGED <<opportunities, entities, articles, opportunity_articles,
                 activity_log, now, discovered, manual_calls, last_call,
                 workers>>

NextTextScorer == ApplyScoreText \/ ApplyAnalyzeContent

SpecTextScorer == InitTextScorer /\ [][NextTextScorer]_vars

(***************************************************************************)
(* AIRelevanceScorer.score_rfp.  Inputs: the keyword score, and for each   *)
(* optional scorer whether it is configured and what its call does: it     *)
(* raises, returns a score, or (the external model) returns its error      *)
(* result {'score': 0, 'error': ...}.  Scores are whole points 0..100,     *)
(* final_score is in hundredths.                                           *)
(***************************************************************************)
BlendScores == {0, 10, 40, 50, 100}

Unconfigured == [status |-> "unconfigured", score |-> 0]

Raises == [status |-> "raises", score |-> 0]

ErrorResult == [status |-> "error", score |-> 0]

ScoreResults == {[status |-> "scored", score |-> x] : x \in BlendScores}

SemanticOutcomes == {Unconfigured, Raises} \cup ScoreResults

OpenAIOutcomes == {Unconfigured, Raises, ErrorResult} \cup ScoreResults

\* scores: the keyword score, sem_score if the call returned, and
\* ai_result['score'] if ai_result.get('score') is truthy.
blend_scores(keyword, semantic, external) ==
  <<keyword>>
    \o (IF semantic.status = "scored" THEN <<semantic.score>> ELSE <<>>)
    \o (IF external.status \in {"scored", "error"} /\ external.score # 0
        THEN <<external.score>> ELSE <<>>)

\* result['methods_used']
methods_used(semantic, external) ==
  {"keyword"}
    \cup (IF semantic.status = "scored" THEN {"semantic"} ELSE {})
    \cup (IF external.status \in {"scored", "error"} THEN {"openai"} ELSE {})

\* The combined score of a list of scores.
combined_score(scores) ==
  IF Len(scores) = 1 THEN 100 * scores[1]
  ELSE IF Len(scores) = 2 THEN 40 * scores[1] + 60 * scores[2]
  ELSE 30 * scores[1] + 35 * scores[2] + 35 * scores[3]

score_rfp(keyword, semantic, external) ==
  LET final_score == combined_score(blend_scores(keyword, semantic, external))
  IN  [outcome |-> "returned",
       methods_used |-> methods_used(semantic, external),
       final_score |-> final_score,
       is_relevant |-> final_score >= 4000]

InitBlend ==
  /\ StoreInit
  /\ probe \in {[fn |-> "score_rfp", keyword |-> k, semantic |-> sem,
                  external |-> ext, result |-> Null] :
                 k \in BlendScores, sem \in SemanticOutcomes,
                 ext \in OpenAIOutcomes}

ApplyScoreRfp ==
  /\ probe.fn = "score_rfp"
  /\ probe.result = Null
  /\ probe' = [probe EXCEPT !.result =
                 Some(score_rfp(probe.keyword, probe.semantic, probe.external))]
  /\ UNCHANGED <<opportunities, entities, articles, opportunity_articles,
                 activity_log, now, discovered, manual_calls, last_call,
                 workers>>

NextBlend == ApplyScoreRfp

SpecBlend == InitBlend /\ [][NextBlend]_vars

(***************************************************************************)
(* determine_priority alone: every score from 0.0 to 100.0 is classified.  *)
(***************************************************************************)
InitPriority ==
  /\ StoreInit
  /\ probe \in {[fn |-> "determine_priority", heat_score |-> h, priority |-> None] :
                  h \in 0..MaxHeat}

ApplyDeterminePriority ==
  /\ probe.fn = "determine_priority"
  /\ probe.priority = None
  /\ probe' = [probe EXCEPT !.priority = determine_priority(probe.heat_score)]
  /\ UNCHANGED <<opportunities, entities, articles, opportunity_articles,
                 activity_log, now, discovered, manual_calls, last_call,
                 workers>>

NextPriority == ApplyDeterminePriority

SpecPriority == InitPriority /\ [][NextPriority]_vars

(***************************************************************************)
(* calculate_heat_score alone, followed by determine_priority as in        *)
(* update_opportunity_score.  The inputs: the opportunity columns it       *)
(* reads, the number of article rows, the entity row and the day.          *)
(***************************************************************************)
KeywordInputs == {0, 100, 333, 795, 800, 1000}

\* <<first_detected, today>>
DateInputs ==
  {<<Null, 0>>} \cup {<<Some(0), t>> : t \in {0, 7, 8, 14, 15, 30, 31, 60, 61, 90, 91}}

ArticleCountInputs == {0, 1, 2, 3, 4, 5, 9, 10, 11}

IssueTypeInputs == IssueTypes \cup {None, "other"}

EntityInputs ==
  {NoEntity}
    \cup {[exists |-> TRUE, population |-> p, annual_budget |-> b] :
            p \in {Null, Some(0), Some(29210), Some(60000), Some(150000),
                   Some(250000), Some(600000), Some(606612)},
            b \in {Null, Some(50000000), Some(2000000000)}}

InitHeat ==
  /\ StoreInit
  /\ probe \in
       {[fn |-> "calculate_heat_score",
         opportunity |-> [heat_score |-> k, first_detected |-> d[1], issue_type |-> t],
         articles |-> n, entity |-> e, today |-> d[2],
         heat_score |-> Null, priority |-> None] :
        k \in KeywordInputs, d \in DateInputs, n \in ArticleCountInputs,
        t \in IssueTypeInputs, e \in EntityInputs}

ApplyCalculateHeatScore ==
  /\ probe.fn = "calculate_heat_score"
  /\ probe.heat_score = Null
  /\ \E half_up \in BOOLEAN :
       LET new_score == calculate_heat_score(probe.opportunity, probe.articles,
                                             probe.entity, probe.today, half_up)
       IN  probe' = [probe EXCEPT !.heat_score = Some(new_score),
                                  !.priority = determine_priority(new_score)]
  /\ UNCHANGED <<opportunities, entities, articles, opportunity_articles,
                 activity_log, now, discovered, manual_calls, last_call,
                 workers>>

NextHeat == ApplyCalculateHeatScore

SpecHeat == InitHeat /\ [][NextHeat]_vars

(***************************************************************************)
(* calculate_heat_score on missing and malformed sub-inputs.  Here         *)
(* first_detected is the column as stored: absent, or a text that          *)
(* datetime.fromisoformat parses to a day, or a text it rejects.           *)
(***************************************************************************)
Timestamp(day) == Some([parses |-> TRUE, day |-> day])

Unparseable == Some([parses |-> FALSE, day |-> 0])

\* datetime.fromisoformat(first_detected.replace('Z', '+00:00')) raises
\* ValueError.
fromisoformat_raises(first_detected) ==
  first_detected # Null /\ ~Val(first_detected).parses

\* The value fromisoformat returns.
fromisoformat(first_detected) ==
  IF first_detected = Null THEN Null ELSE Some(Val(first_detected).day)

StoredDates == {Null, Unparseable, Timestamp(0)}

SubInputArticles == {0, 1, 3}

SubInputIssueTypes == {None, "other", "audit"}

SubInputKeywordScores == {0, 500, 1000}

SubInputEntities ==
  {NoEntity, [exists |-> TRUE, population |-> Some(606612), annual_budget |-> Null]}

\* calculate_heat_score of the stored row: the exception of
\* calculate_recency_score is not caught.
heat_score_of_stored(opportunity, article_count_rows, entity, today, half_up) ==
  IF fromisoformat_raises(opportunity.first_detected)
  THEN [outcome |-> "raised", scores |-> Null, heat_score |-> Null]
  ELSE LET parsed == [opportunity EXCEPT
                        !.first_detected = fromisoformat(opportunity.first_detected)]
       IN  [outcome |-> "returned",
            scores |-> Some(SubScores(parsed, article_count_rows, entity, today)),
            heat_score |-> Some(calculate_heat_score(parsed, article_count_rows,
                                                     entity, today, half_up))]

InitSubInputs ==
  /\ StoreInit
  /\ probe \in
       {[fn |-> "sub_inputs",
         opportunity |-> [heat_score |-> k, first_detected |-> d, issue_type |-> t],
         articles |-> n, entity |-> e, today |-> DayStep, result |-> Null] :
        k \in SubInputKeywordScores, d \in StoredDates, n \in SubInputArticles,
        t \in SubInputIssueTypes, e \in SubInputEntities}

ApplyHeatScoreOfStored ==
  /\ probe.fn = "sub_inputs"
  /\ probe.result = Null
  /\ \E half_up \in BOOLEAN :
       probe' = [probe EXCEPT !.result =
                   Some(heat_score_of_stored(probe.opportunity, probe.articles,
                                             probe.entity, probe.today, half_up))]
  /\ UNCHANGED <<opportunities, entities, articles, opportunity_articles,
                 activity_log, now, discovered, manual_calls, last_call,
                 workers>>

NextSubInputs == ApplyHeatScoreOfStored

SpecSubInputs == InitSubInputs /\ [][NextSubInputs]_vars

(***************************************************************************)
(* calculate_recency_score as time passes: the opportunity keeps its       *)
(* first_detected while datetime.now() moves on a day at a time.           *)
(***************************************************************************)
MaxAge == 95

FirstDetectedInputs == {Null, Some(0), Some(2)}

InitRecency ==
  /\ StoreInit
  /\ probe \in {[fn |-> "calculate_recency_score", first_detected |-> d,
                  today |-> t, score |-> Null] :
                 d \in FirstDetectedInputs, t \in {0, 2}}

ApplyRecencyScore ==
  /\ probe.fn = "calculate_recency_score"
  /\ probe.score = Null
  /\ probe' = [probe EXCEPT !.score =
                 Some(calculate_recency_score(probe.first_detected, probe.today))]
  /\ UNCHANGED <<opportunities, entities, articles, opportunity_articles,
                 activity_log, now, discovered, manual_calls, last_call,
                 workers>>

\* The next call, a day later.
RecencyNextDay ==
  /\ probe.fn = "calculate_recency_score"
  /\ probe.score # Null
  /\ probe.today < MaxAge
  /\ probe' = [probe EXCEPT
                 !.today = probe.today + 1,
                 !.score = Some(calculate_recency_score(probe.first_detected,
                                                        probe.today + 1))]
  /\ UNCHANGED <<opportunities, entities, articles, opportunity_articles,
                 activity_log, now, discovered, manual_calls, last_call,
                 workers>>

NextRecency == ApplyRecencyScore \/ RecencyNextDay

SpecRecency == InitRecency /\ [][NextRecency]_vars

(***************************************************************************)
(* The article-volume factor as articles are linked: for each opportunity  *)
(* the number of rows get_opportunity_articles returns, and the score      *)
(* calculate_heat_score last took for it.                                  *)
(***************************************************************************)
MaxLinked == 12

\* article_count = len(articles) if articles else 1
article_volume_score(article_count_rows) ==
  calculate_article_count_score(
    IF article_count_rows > 0 THEN article_count_rows ELSE 1)

InitArticleVolume ==
  /\ StoreInit
  /\ probe = [fn |-> "article_volume", linked |-> [o \in OppIds |-> 0],
              scores |-> [o \in OppIds |-> Null], scored |-> 0]

\* link_article_to_opportunity of a new article.
LinkArticle(o) ==
  /\ probe.fn = "article_volume"
  /\ probe.linked[o] < MaxLinked
  /\ probe' = [probe EXCEPT !.linked[o] = probe.linked[o] + 1, !.scored = 0]
  /\ UNCHANGED <<opportunities, entities, articles, opportunity_articles,
                 activity_log, now, discovered, manual_calls, last_call,
                 workers>>

ScoreArticleVolume(o) ==
  /\ probe.fn = "article_volume"
  /\ probe' = [probe EXCEPT
                 !.scores[o] = Some(article_volume_score(probe.linked[o])),
                 !.scored = o]
  /\ UNCHANGED <<opportunities, entities, articles, opportunity_articles,
                 activity_log, now, discovered, manual_calls, last_call,
                 workers>>

NextArticleVolume ==
  \/ \E o \in OppIds : LinkArticle(o)
  \/ \E o \in OppIds : ScoreArticleVolume(o)

SpecArticleVolume == InitArticleVolume /\ [][NextArticleVolume]_vars

(***************************************************************************)
(* Category inference of the two scorers: issue_type of analyze_content    *)
(* and primary_category of calculate_relevance.  The news table here is    *)
(* five seeded rows, two categories with two rows each, in the order       *)
(* get_all_keywords returns them.                                          *)
(***************************************************************************)
CategoryKeywords ==
  << [keyword |-> "kickback", category |-> "procurement", weight |-> 25],
     [keyword |-> "corruption", category |-> "ethics", weight |-> 25],
     [keyword |-> "bid rigging", category |-> "procurement", weight |-> 20],
     [keyword |-> "missing funds", category |-> "audit", weight |-> 20],
     [keyword |-> "audit finding", category |-> "audit", weight |-> 15] >>

CategoryTexts == [1..Len(CategoryKeywords) -> 0..MaxOccurrences]

InitCategory ==
  /\ StoreInit
  /\ probe \in
       {[fn |-> "issue_type", keywords |-> CategoryKeywords, text |-> t,
         done |-> FALSE, category |-> None] : t \in CategoryTexts}
       \cup {[fn |-> "primary_category", keywords |-> RfpKeywords, text |-> t,
               done |-> FALSE, category |-> None] : t \in RfpTexts}

ApplyIssueType ==
  /\ probe.fn = "issue_type"
  /\ ~probe.done
  /\ probe' = [probe EXCEPT
                 !.done = TRUE,
                 !.category = analyze_content_with(probe.keywords, probe.text).issue_type]
  /\ UNCHANGED <<opportunities, entities, articles, opportunity_articles,
                 activity_log, now, discovered, manual_calls, last_call,
                 workers>>

ApplyPrimaryCategory ==
  /\ probe.fn = "primary_category"
  /\ ~probe.done
  /\ probe' = [probe EXCEPT
                 !.done = TRUE,
                 !.category = calculate_relevance(probe.text).category]
  /\ UNCHANGED <<opportunities, entities, articles, opportunity_articles,
                 activity_log, now, discovered, manual_calls, last_call,
                 workers>>

NextCategory == ApplyIssueType \/ ApplyPrimaryCategory

SpecCategory == InitCategory /\ [][NextCategory]_vars

(***************************************************************************)
(* update_opportunity_score called again and again on one opportunity      *)
(* while its articles, its entity and the day stay as they are.  The row   *)
(* starts with any stored score and priority (the update route can set     *)
(* both).  round() is a function of its argument: a call that finds the    *)
(* score the previous call found rounds to the same side.                  *)
(***************************************************************************)
MaxCalls == 12

StartRows ==
  {[exists |-> TRUE, entity_id |-> 1, heat_score |-> h, status |-> "new",
    priority |-> p, issue_type |-> t, first_detected |-> Some(0),
    last_activity |-> 0, notes |-> None] :
   h \in 0..MaxHeat, p \in Priorities, t \in {None, "legal"}}

InitConverge ==
  /\ opportunities = [o \in OppIds |-> NoOpportunity]
  /\ entities = SeededEntities
  /\ articles = {}
  /\ opportunity_articles = {}
  /\ activity_log = [k \in OppIds \X ActivityTypes |-> 0]
  /\ now = 0
  /\ discovered = [o \in OppIds |-> Null]
  /\ manual_calls = 0
  /\ last_call = [op |-> "init"]
  /\ workers = [w \in WorkerIds |-> IdleWorker]
  /\ probe = [fn |-> "converge", calls |-> 0, trend |-> "none",
              rounded |-> [score |-> -1, side |-> FALSE]]

\* The row as the store holds it before the first of the repeated calls:
\* update_opportunity has set its heat_score and priority to any values.
StoreStartRow ==
  /\ probe.fn = "converge"
  /\ ~opportunities[1].exists
  /\ \E row \in StartRows :
       opportunities' = [opportunities EXCEPT ![1] = row]
  /\ UNCHANGED <<entities, articles, opportunity_articles, activity_log, now,
                 discovered, manual_calls, last_call, probe, workers>>

\* The sides round() can take in the next call on opportunity 1.
ConvergeSides ==
  IF probe.rounded.score = opportunities[1].heat_score
  THEN {probe.rounded.side}
  ELSE RoundingSides(opportunities, 1)

RepeatUpdateScore ==
  /\ probe.fn = "converge"
  /\ opportunities[1].exists
  /\ probe.calls < MaxCalls
  /\ \E half_up \in ConvergeSides :
       LET old == opportunities[1].heat_score
           r == update_opportunity_score(opportunities, activity_log, 1,
                                         FALSE, half_up)
       IN  /\ opportunities' = r.opps
           /\ activity_log' = r.log
           /\ last_call' = [op |-> "update_opportunity_score", id |-> 1,
                            outcome |-> r.outcome, wrote |-> r.wrote,
                            keyword_in |-> r.keyword_in,
                            heat_score |-> r.heat_score, priority |-> r.priority]
           /\ probe' = [probe EXCEPT
                          !.calls = probe.calls + 1,
                          !.rounded = [score |-> old, side |-> half_up],
                          !.trend = IF r.heat_score > old THEN "up"
                                    ELSE IF r.heat_score < old THEN "down"
                                    ELSE probe.trend]
  /\ UNCHANGED <<entities, articles, opportunity_articles, now, discovered,
                 manual_calls, workers>>

NextConverge == StoreStartRow \/ RepeatUpdateScore

\* What the call counter shows of one more call on the stored row.
CallCounted ==
  /\ probe.fn = "converge"
  /\ opportunities[1].exists
  /\ probe.calls < MaxCalls
  /\ probe' \in [fn : {"converge"}, calls : {probe.calls + 1},
                 trend : {"none", "up", "down"},
                 rounded : [score : -1..MaxHeat, side : BOOLEAN]]

\* The calls are repeated: while another call can be made, one is made.
SpecConverge == InitConverge /\ [][NextConverge]_vars /\ WF_probe(CallCounted)

(***************************************************************************)
(* The rfps table and the calls that write it: save_rfps on a scraped      *)
(* batch, the manual add route, the update route, and rescore_all_rfps.    *)
(* A title stands for the text of title and description: the occurrences   *)
(* of the RFP keywords in it, and what KeywordScorer.score_text and        *)
(* categorize_rfp return on it.  relevance_score is held in hundredths on  *)
(* both scales (2.0 is 200, 40 is 4000).  Two columns of a row are not in  *)
(* the table: scale names the classifier that wrote the score last, and    *)
(* written counts the writes of each of the three relevance columns.       *)
(***************************************************************************)
MaxRfps == 2

MaxRescores == 1

RfpIds == 1..MaxRfps

RfpTitles ==
  { [text |-> <<0, 0, 0, 0, 0, 0>>, kw_score |-> 0, ai_category |-> "general"],
    [text |-> <<0, 0, 0, 1, 0, 1>>, kw_score |-> 10, ai_category |-> "software"],
    [text |-> <<0, 0, 1, 0, 0, 0>>, kw_score |-> 40, ai_category |-> "it_consulting"],
    [text |-> <<1, 0, 0, 0, 2, 0>>, kw_score |-> 100, ai_category |-> "data"] }

RelevanceColumns == {"is_relevant", "relevance_score", "category"}

NoRfp ==
  [exists |-> FALSE, title |-> Null, solicitation_number |-> None,
   status |-> None, notes |-> None, category |-> None, is_relevant |-> 0,
   relevance_score |-> 0, scale |-> None,
   written |-> [c \in RelevanceColumns |-> 0]]

\* INSERT INTO rfps (...): the new row's id, or on the IntegrityError of
\* UNIQUE(solicitation_number, source_portal) the id of the row that is
\* there, which is left as it is.
create_rfp(rfps, title, kwargs) ==
  LET clash == {i \in RfpIds :
                  /\ rfps[i].exists
                  /\ kwargs.solicitation_number # None
                  /\ rfps[i].solicitation_number = kwargs.solicitation_number}
      free == {i \in RfpIds : ~rfps[i].exists}
  IN  IF clash # {}
      THEN [rfps |-> rfps, rfp_id |-> CHOOSE i \in clash : TRUE]
      ELSE LET rfp_id == CHOOSE i \in free : \A j \in free : i <= j
           IN  [rfps |->
                  [rfps EXCEPT ![rfp_id] =
                     [exists |-> TRUE, title |-> Some(title),
                      solicitation_number |-> kwargs.solicitation_number,
                      status |-> "open", notes |-> None,
                      category |-> kwargs.category,
                      is_relevant |-> kwargs.is_relevant,
                      relevance_score |-> kwargs.relevance_score,
                      scale |-> "keyword",
                      written |-> [c \in RelevanceColumns |-> 1]]],
                rfp_id |-> rfp_id]

rfp_valid_fields ==
  {"status", "category", "is_relevant", "relevance_score", "notes"}

\* UPDATE rfps SET <fields>, updated_at = CURRENT_TIMESTAMP WHERE id = ?
update_rfp(rfps, rfp_id, kwargs) ==
  LET given == DOMAIN kwargs \cap rfp_valid_fields
  IN  IF given = {} THEN rfps
      ELSE IF ~rfps[rfp_id].exists THEN rfps
      ELSE [rfps EXCEPT ![rfp_id] =
              [f \in DOMAIN rfps[rfp_id] |->
                 IF f \in given THEN kwargs[f]
                 ELSE IF f = "written"
                   THEN [c \in RelevanceColumns |->
                           rfps[rfp_id].written[c] + (IF c \in given THEN 1 ELSE 0)]
                 ELSE rfps[rfp_id][f]]]

\* The dict a scraper builds for one listing: is_relevant, score, category
\* = self.calculate_relevance(text).
RfpData(title, solicitation_number) ==
  LET r == calculate_relevance(title.text)
  IN  [title |-> title, solicitation_number |-> solicitation_number,
       category |-> r.category, is_relevant |-> r.is_relevant,
       relevance_score |-> r.score]

Scraped == {RfpData(t, s) : t \in RfpTitles, s \in {None, "S-1"}}

Batches == {<<d>> : d \in Scraped} \cup {<<d, e>> : d \in Scraped, e \in Scraped}

\* The keyword arguments save_rfps and the add routes hand to create_rfp.
RelevanceKwargs(rfp_data) ==
  [solicitation_number |-> rfp_data.solicitation_number,
   category |-> rfp_data.category,
   is_relevant |-> IF rfp_data.is_relevant THEN 1 ELSE 0,
   relevance_score |-> 10 * rfp_data.relevance_score]

RECURSIVE save_rfps(_, _, _)
save_rfps(rfps, batch, i) ==
  IF i > Len(batch) THEN [rfps |-> rfps, saved_count |-> 0]
  ELSE LET made == create_rfp(rfps, batch[i].title, RelevanceKwargs(batch[i]))
           rest == save_rfps(made.rfps, batch, i + 1)
       IN  [rfps |-> rest.rfps, saved_count |-> rest.saved_count + 1]

Free(rfps) == {i \in RfpIds : ~rfps[i].exists}

InitRfps ==
  /\ StoreInit
  /\ probe = [fn |-> "rfps", rfps |-> [i \in RfpIds |-> NoRfp], rescores |-> 0]

RfpFrame ==
  UNCHANGED <<opportunities, entities, articles, opportunity_articles,
              activity_log, now, discovered, manual_calls, workers>>

SaveRfps ==
  /\ probe.fn = "rfps"
  /\ \E batch \in Batches :
       LET r == save_rfps(probe.rfps, batch, 1)
       IN  /\ Cardinality(Free(probe.rfps)) >= Len(batch)
           /\ probe' = [probe EXCEPT !.rfps = r.rfps]
           /\ last_call' = [op |-> "save_rfps", saved_count |-> r.saved_count]
  /\ RfpFrame

\* The add route without a URL, and manual_add_rfp with one: the row is
\* created from calculate_relevance of what was typed or fetched.
ManualAddRfp ==
  /\ probe.fn = "rfps"
  /\ Free(probe.rfps) # {}
  /\ \E title \in RfpTitles :
       LET r == create_rfp(probe.rfps, title, RelevanceKwargs(RfpData(title, None)))
       IN  /\ probe' = [probe EXCEPT !.rfps = r.rfps]
           /\ last_call' = [op |-> "add_rfp", rfp_id |-> r.rfp_id]
  /\ RfpFrame

\* update_rfp_route: status and notes of the form, those that are given.
UpdateRfpRoute ==
  /\ probe.fn = "rfps"
  /\ \E rfp_id \in RfpIds, updates \in {[status |-> "reviewing", notes |-> "text"]} :
       /\ probe.rfps[rfp_id].exists
       /\ probe' = [probe EXCEPT !.rfps = update_rfp(probe.rfps, rfp_id, updates)]
       /\ last_call' = [op |-> "update_rfp_route", rfp_id |-> rfp_id]
  /\ RfpFrame

\* db.get_all_rfps(): the rows, ORDER BY due_date, relevance_score DESC;
\* due dates are not in the model, the rows come in any order.
get_all_rfps(rfps) ==
  LET listed == {i \in RfpIds : rfps[i].exists}
  IN  {order \in [1..Cardinality(listed) -> listed] :
         \A i, j \in DOMAIN order : i # j => order[i] # order[j]}

\* A loop that a failure ends.
after_failure_stop(order, i) == Len(order) + 1

\* The record the loop goes to after logging the failure of record i.
after_failure(order, i) == i + 1

\* What the scorers do in a run: which optional scorers the engine has, and
\* for each record whether the keyword scoring raises (the optional scorers
\* are then not reached), or else what the optional scorers answer and
\* whether the UPDATE raises.
RecordOutcomes(semantic_on, external_on) ==
  {[fault |-> "score", semantic |-> Unconfigured, external |-> Unconfigured]}
    \cup [fault : {"none", "update"},
          semantic : IF semantic_on
                     THEN {Raises, [status |-> "scored", score |-> 100]}
                     ELSE {Unconfigured},
          external : IF external_on
                     THEN {ErrorResult, [status |-> "scored", score |-> 50]}
                     ELSE {Unconfigured}]

NoStats ==
  [total |-> 0, rescored |-> 0, high_relevance |-> 0, medium_relevance |-> 0,
   low_relevance |-> 0]

RECURSIVE rescore_loop(_, _, _, _)
rescore_loop(order, i, outcomes, st) ==
  IF i > Len(order) THEN st
  ELSE
    LET rfp_id == order[i]
        outcome == outcomes[rfp_id]
        result == score_rfp(Val(st.rfps[rfp_id].title).kw_score,
                            outcome.semantic, outcome.external)
        updated == update_rfp(st.rfps, rfp_id,
                     [relevance_score |-> result.final_score,
                      is_relevant |-> IF result.is_relevant THEN 1 ELSE 0,
                      category |-> Val(st.rfps[rfp_id].title).ai_category])
        band == IF result.final_score >= 7000 THEN "high_relevance"
                ELSE IF result.final_score >= 4000 THEN "medium_relevance"
                ELSE "low_relevance"
    IN  IF outcome.fault # "none"
        THEN rescore_loop(order, after_failure(order, i), outcomes, st)
        ELSE rescore_loop(order, i + 1, outcomes,
               [rfps |-> [updated EXCEPT ![rfp_id].scale = "blended"],
                stats |-> [st.stats EXCEPT !.rescored = @ + 1, ![band] = @ + 1]])

rescore_all_rfps(rfps, order, outcomes) ==
  rescore_loop(order, 1, outcomes,
               [rfps |-> rfps, stats |-> [NoStats EXCEPT !.total = Len(order)]])

RescoreAllRfps ==
  /\ probe.fn = "rfps"
  /\ probe.rescores < MaxRescores
  /\ \E order \in get_all_rfps(probe.rfps), semantic_on, external_on \in BOOLEAN :
       \E outcomes \in [{order[i] : i \in DOMAIN order} ->
                          RecordOutcomes(semantic_on, external_on)] :
         LET st == rescore_all_rfps(probe.rfps, order, outcomes)
         IN  /\ probe' = [probe EXCEPT !.rfps = st.rfps,
                                       !.rescores = probe.rescores + 1]
             /\ last_call' = [op |-> "rescore_all_rfps", stats |-> st.stats,
                              outcomes |-> outcomes]
  /\ RfpFrame

NextRfps == SaveRfps \/ ManualAddRfp \/ UpdateRfpRoute \/ RescoreAllRfps

SpecRfps == InitRfps /\ [][NextRfps]_vars

(***************************************************************************)
(* SchedulerService: start() and stop() called one after the other by one  *)
(* caller, and the loop threads start() creates.  A loop thread is at its  *)
(* while test (check), in the body before the sleep (tasks), in            *)
(* time.sleep(60) (sleep), or has left the loop (done).  Time passes in    *)
(* steps of the join timeout; a sleep or a join that is over ends, and a   *)
(* thread at its while test makes the test, before more time passes.       *)
(***************************************************************************)
MaxThreads == 2

SleepSeconds == 60

JoinTimeout == 5

ThreadIds == 1..MaxThreads

NoThread == [pc |-> "unstarted", sleep_left |-> 0]

InitScheduler ==
  /\ StoreInit
  /\ probe = [fn |-> "scheduler", running |-> FALSE, thread |-> Null,
              loops |-> [t \in ThreadIds |-> NoThread],
              caller |-> [pc |-> "idle", join_left |-> 0]]

SchedulerFrame ==
  UNCHANGED <<opportunities, entities, articles, opportunity_articles,
              activity_log, now, discovered, manual_calls, workers>>

Unstarted == {t \in ThreadIds : probe.loops[t].pc = "unstarted"}

\* start(): returns at once on a running scheduler, else sets running and
\* starts a new thread on _run_loop.
SchedulerStart ==
  /\ probe.fn = "scheduler"
  /\ probe.caller.pc = "idle"
  /\ IF probe.running
     THEN /\ probe' = probe
          /\ last_call' = [op |-> "start", started |-> Null]
     ELSE /\ Unstarted # {}
          /\ LET t == CHOOSE u \in Unstarted : \A v \in Unstarted : u <= v
             IN  /\ probe' = [probe EXCEPT !.running = TRUE,
                                           !.thread = Some(t),
                                           !.loops[t].pc = "check"]
                 /\ last_call' = [op |-> "start", started |-> Some(t)]
  /\ SchedulerFrame

\* stop(): self.running = False, then self.thread.join(timeout=5) if there
\* is a thread.
SchedulerStop ==
  /\ probe.fn = "scheduler"
  /\ probe.caller.pc = "idle"
  /\ probe' = [probe EXCEPT
                 !.running = FALSE,
                 !.caller = IF probe.thread = Null THEN probe.caller
                            ELSE [pc |-> "joining", join_left |-> JoinTimeout]]
  /\ last_call' = [op |-> "stop", joined |-> probe.thread]
  /\ SchedulerFrame

\* join returns: the thread has ended, or the timeout is over.
SchedulerStopReturns ==
  /\ probe.fn = "scheduler"
  /\ probe.caller.pc = "joining"
  /\ \/ probe.loops[Val(probe.thread)].pc = "done"
     \/ probe.caller.join_left = 0
  /\ probe' = [probe EXCEPT !.caller = [pc |-> "idle", join_left |-> 0]]
  /\ last_call' = [op |-> "stop_returned",
                   joined |-> probe.loops[Val(probe.thread)].pc = "done"]
  /\ SchedulerFrame

\* while self.running:
LoopCheck(t) ==
  /\ probe.fn = "scheduler"
  /\ probe.loops[t].pc = "check"
  /\ probe' = [probe EXCEPT !.loops[t].pc =
                 IF probe.running THEN "tasks" ELSE "done"]
  /\ UNCHANGED last_call
  /\ SchedulerFrame

\* The body: the tasks that are due, then time.sleep(60), in the try block
\* or in the except clause.
LoopTasks(t) ==
  /\ probe.fn = "scheduler"
  /\ probe.loops[t].pc = "tasks"
  /\ probe' = [probe EXCEPT !.loops[t] =
                 [pc |-> "sleep", sleep_left |-> SleepSeconds]]
  /\ UNCHANGED last_call
  /\ SchedulerFrame

\* time.sleep(60) returns.
LoopWake(t) ==
  /\ probe.fn = "scheduler"
  /\ probe.loops[t].pc = "sleep"
  /\ probe.loops[t].sleep_left = 0
  /\ probe' = [probe EXCEPT !.loops[t].pc = "check"]
  /\ UNCHANGED last_call
  /\ SchedulerFrame

Sleeping == {t \in ThreadIds : probe.loops[t].pc = "sleep"}

TimePasses ==
  /\ probe.fn = "scheduler"
  /\ Sleeping # {} \/ probe.caller.pc = "joining"
  /\ \A t \in ThreadIds : probe.loops[t].pc # "check"
  /\ \A t \in Sleeping : probe.loops[t].sleep_left >= JoinTimeout
  /\ probe.caller.pc = "joining" =>
       /\ probe.caller.join_left >= JoinTimeout
       /\ probe.loops[Val(probe.thread)].pc # "done"
  /\ probe' = [probe EXCEPT
                 !.loops = [t \in ThreadIds |->
                              IF t \in Sleeping
                              THEN [probe.loops[t] EXCEPT
                                      !.sleep_left = @ - JoinTimeout]
                              ELSE probe.loops[t]],
                 !.caller = IF probe.caller.pc = "joining"
                            THEN [probe.caller EXCEPT
                                    !.join_left = @ - JoinTimeout]
                            ELSE probe.caller]
  /\ UNCHANGED last_call
  /\ SchedulerFrame

NextScheduler ==
  \/ SchedulerStart
  \/ SchedulerStop
  \/ SchedulerStopReturns
  \/ \E t \in ThreadIds : LoopCheck(t) \/ LoopTasks(t) \/ LoopWake(t)
  \/ TimePasses

SpecScheduler == InitScheduler /\ [][NextScheduler]_vars

(***************************************************************************)
(* Properties.                                                             *)
(***************************************************************************)
Consistent(row) == row.priority = determine_priority(row.heat_score)

Returned(call) == call.op = "update_opportunity_score" /\ call.outcome = "returned"

\* C1: once update_opportunity_score has returned for an existing
\* opportunity, the stored priority is the classification of the stored
\* heat score; the same holds for every record a batch run got through.
C1_PriorityMatchesScore ==
  /\ Returned(last_call) => Consistent(opportunities[last_call.id])
  /\ last_call.op = "recalculate_all_scores" =>
       \A o \in last_call.visited : Consistent(opportunities[o])

\* The call found the score as discovery stored it and only corrected the
\* priority that creation had defaulted to medium.
C1_Witness ==
  /\ Returned(last_call)
  /\ opportunities[last_call.id].heat_score = Val(discovered[last_call.id])
  /\ opportunities[last_call.id].priority = "high"
  /\ activity_log[<<last_call.id, "score_updated">>] = 1

\* C2: a second call right after a first one, nothing else having happened,
\* returns the same score and priority and writes nothing.
C2_Idempotent ==
  [][(/\ Returned(last_call)
      /\ Returned(last_call')
      /\ last_call'.id = last_call.id)
     => /\ last_call'.heat_score = last_call.heat_score
        /\ last_call'.priority = last_call.priority
        /\ opportunities' = opportunities
        /\ activity_log' = activity_log]_vars

\* C11: every stored opportunity has a heat score from 0.0 to 100.0, after
\* its creation by process_article and after every update, whatever the
\* keyword table, tables with negative weights included.
C11_HeatScoreInRange ==
  \A o \in OppIds :
    opportunities[o].exists
      => (opportunities[o].heat_score >= 0 /\ opportunities[o].heat_score <= 1000)

\* Under a table with a negative weight an opportunity was created at the
\* upper limit and has been rescored.
C11_Witness ==
  /\ probe.fn = "keywords"
  /\ \E i \in DOMAIN probe.keywords : probe.keywords[i].weight < 0
  /\ \E o \in OppIds :
       /\ opportunities[o].exists
       /\ discovered[o] = Some(1000)
       /\ activity_log[<<o, "score_updated">>] >= 1

\* A number the entity row does not carry counts as zero.
Amount(field) == IF field = Null THEN 0 ELSE Val(field)

\* C12: with no entity the entity-size score is 50; with an entity record
\* whose population and budget are both zero or absent it is 0.
C12_EmptyEntityScoresZero ==
  (probe.fn = "entity_size" /\ probe.score # Null) =>
    /\ ~probe.entity.exists => probe.score = Some(50)
    /\ (/\ probe.entity.exists
        /\ Amount(probe.entity.population) = 0
        /\ Amount(probe.entity.annual_budget) = 0) => probe.score = Some(0)

\* C19: the population score is 100/80/60/40/20 for a population of at
\* least 500,000 / 200,000 / 100,000 / 50,000 / less; the budget score is
\* 100/80/60/40/0 for a budget of at least $1B / $500M / $100M / more than
\* zero / zero; with both numbers available the entity-size score is their
\* mean, with only one of them nonzero it is that one's score alone.
C19_EntitySizeTable ==
  (probe.fn = "entity_size" /\ probe.score # Null /\ probe.entity.exists) =>
    LET population == Amount(probe.entity.population)
        budget == Amount(probe.entity.annual_budget)
        pop == IF population >= 500000 THEN 100
               ELSE IF population >= 200000 THEN 80
               ELSE IF population >= 100000 THEN 60
               ELSE IF population >= 50000 THEN 40
               ELSE 20
        bud == IF budget >= 1000000000 THEN 100
               ELSE IF budget >= 500000000 THEN 80
               ELSE IF budget >= 100000000 THEN 60
               ELSE IF budget > 0 THEN 40
               ELSE 0
    IN  /\ (population > 0 /\ budget > 0) => 2 * Val(probe.score) = pop + bud
        /\ (population > 0 /\ budget = 0) => Val(probe.score) = pop
        /\ (population = 0 /\ budget > 0) => Val(probe.score) = bud

\* The opportunities a step creates.
Created == {o \in OppIds : opportunities'[o].exists /\ ~opportunities[o].exists}

\* C13: process_article creates opportunities only from a text whose raw
\* keyword total (before normalisation) is at least 10.0 and in which an
\* entity was found; a call that fails either test writes no article, no
\* opportunity, no link and no activity-log row; a call that passes both
\* creates one opportunity for each entity, each linked to the article.
C13_CreationGate ==
  [][
      /\ \A o \in Created :
          /\ \E content \in Contents :
               /\ RawTotal(content, 1) >= 100
               /\ analyze_content(content).heat_score = opportunities'[o].heat_score
          /\ \E url \in articles' \ articles : <<o, url>> \in opportunity_articles'
          /\ \A other \in Created :
               other # o => opportunities'[other].entity_id # opportunities'[o].entity_id
      /\ (articles' # articles) => (Created # {})
      /\ (last_call'.op = "process_article" /\ last_call'.outcome # "created")
           => UNCHANGED <<opportunities, articles, opportunity_articles, activity_log>>
    ]_vars

\* C14: the score of the RFP classifier is the sum of the weights of the
\* RFP keywords found in the text, each counted once however often it
\* occurs and not rescaled to 0-100; is_relevant is true exactly when the
\* score is at least 2.0 (1.9 gives false, 2.0 gives true).
C14_RelevanceThreshold ==
  (probe.fn = "calculate_relevance" /\ probe.result # Null) =>
    LET result == Val(probe.result)
        matched == {i \in DOMAIN RfpKeywords : probe.text[i] > 0}
        RECURSIVE SumOver(_)
        SumOver(S) == IF S = {} THEN 0
                      ELSE LET i == CHOOSE x \in S : TRUE
                           IN  RfpKeywords[i].weight + SumOver(S \ {i})
    IN  /\ result.score = SumOver(matched)
        /\ result.is_relevant <=> (result.score >= 20)
        /\ (result.score = 19) => ~result.is_relevant
        /\ (result.score = 20) => result.is_relevant

\* A text with a repeated keyword that totals 1.9 has been classified, and
\* the table has a text that totals exactly 2.0 and one that totals more
\* than 100.
C14_Witness ==
  /\ probe.fn = "calculate_relevance"
  /\ probe.result # Null
  /\ Val(probe.result).score = 19
  /\ ~Val(probe.result).is_relevant
  /\ \E i \in DOMAIN RfpKeywords : probe.text[i] > 1
  /\ \E t \in RfpTexts : calculate_relevance(t).score = 20
  /\ \E t \in RfpTexts : calculate_relevance(t).score > 100

\* A text scorer has returned.
Scored == probe.fn \in {"score_text", "analyze_content"} /\ probe.result # Null

\* Hundredths of a point in one unit of the scorer's result.
ResultUnit == IF probe.fn = "score_text" THEN 1 ELSE 10

\* C15: in the text scorers a keyword of weight w found n >= 1 times
\* contributes w * (1 + 0.2 * (n - 1)) (weight 2.0 found 3 times gives 2.8,
\* not 6.0); a keyword not found contributes nothing and is not in the
\* matches; the total is the sum of the contributions, negative ones
\* included.
C15_DiminishingReturns ==
  Scored =>
    LET result == Val(probe.result)
        Contribution(i) ==
          IF probe.text[i] = 0 THEN 0
          ELSE 2 * probe.keywords[i].weight * (probe.text[i] + 4)
        RECURSIVE Sum(_)
        Sum(i) == IF i > Len(probe.keywords) THEN 0
                  ELSE Contribution(i) + Sum(i + 1)
    IN  /\ \A i \in DOMAIN probe.keywords :
             IF probe.text[i] = 0
             THEN \A m \in DOMAIN result.matches :
                    result.matches[m].keyword # probe.keywords[i].keyword
             ELSE \E m \in DOMAIN result.matches :
                    /\ result.matches[m].keyword = probe.keywords[i].keyword
                    /\ result.matches[m].count = probe.text[i]
                    /\ ResultUnit * result.matches[m].score = Contribution(i)
        /\ ResultUnit * result.total_score = Sum(1)

\* C16: the normalised keyword score is the total divided by 25 and
\* multiplied by 100, kept within 0 and 100: a total of 0 gives 0, of 25
\* gives 100, of 50 gives 100, a negative total gives 0.
C16_Normalization ==
  Scored =>
    LET result == Val(probe.result)
        total == ResultUnit * result.total_score
        normalized == ResultUnit * result.normalized_score
    IN  /\ normalized = Min(10000, Max(0, 4 * total))
        /\ normalized >= 0
        /\ normalized <= 10000

\* score_rfp has returned.
Blended == probe.fn = "score_rfp" /\ probe.result # Null

\* The scores the methods produced: a scorer that is not configured,
\* raises, or returns an error result produced none.
Produced(outcome) == IF outcome.status = "scored" THEN <<outcome.score>> ELSE <<>>

\* C17: the blended score is a weighted average over the methods that
\* produced a score: the keyword score alone when it is the only one;
\* 0.30 keyword + 0.35 semantic + 0.35 external model with all three; with
\* two methods their three-method weights rescaled in proportion so that
\* they sum to one (0.30 : 0.35); is_relevant is final_score >= 40.
C17_ProportionalBlend ==
  Blended =>
    LET result == Val(probe.result)
        others == Produced(probe.semantic) \o Produced(probe.external)
    IN  /\ (Len(others) = 0) => result.final_score = 100 * probe.keyword
        /\ (Len(others) = 1) =>
             65 * result.final_score = 100 * (30 * probe.keyword + 35 * others[1])
        /\ (Len(others) = 2) =>
             result.final_score =
               30 * probe.keyword + 35 * others[1] + 35 * others[2]
        /\ result.is_relevant <=> (result.final_score >= 4000)

\* C18: whichever optional scorers are configured, and whether a
\* configured one raises or returns an error result, score_rfp returns
\* final_score and is_relevant, and final_score is the combined score of
\* exactly the scores that were produced.
C18_BlendOfProducedScores ==
  Blended =>
    LET result == Val(probe.result)
        produced == <<probe.keyword>> \o Produced(probe.semantic)
                      \o Produced(probe.external)
    IN  /\ result.outcome = "returned"
        /\ result.final_score = combined_score(produced)
        /\ result.is_relevant <=> (combined_score(produced) >= 4000)

\* C20: a missing or malformed sub-input of the heat score gives a default,
\* never an error: no entity gives entity size 50, no linked articles
\* article volume 20, a missing first_detected recency 50, a first_detected
\* that cannot be parsed a default recency and no exception, an unknown or
\* null issue type severity 70; calculate_heat_score returns a score for
\* every such input.
C20_DefaultsNeverRaise ==
  (probe.fn = "sub_inputs" /\ probe.result # Null) =>
    LET result == Val(probe.result)
    IN  /\ result.outcome = "returned"
        /\ result.heat_score # Null
        /\ result.scores # Null
        /\ LET scores == Val(result.scores)
           IN  /\ ~probe.entity.exists => scores.entity_size = 500
               /\ (probe.articles = 0) => scores.article_count = 200
               /\ (probe.opportunity.first_detected = Null) => scores.recency = 500
               /\ (probe.opportunity.issue_type \notin IssueTypes)
                    => scores.severity = 700

\* C3: determine_priority answers urgent from 85.0 up, else high from 70.0
\* up, else medium from 40.0 up, else low, for every score from 0.0 to 100.0
\* in steps of 0.1.
C3_ThresholdClassification ==
  (probe.fn = "determine_priority" /\ probe.priority # None)
    => probe.priority = IF probe.heat_score >= 850 THEN "urgent"
                        ELSE IF probe.heat_score >= 700 THEN "high"
                        ELSE IF probe.heat_score >= 400 THEN "medium"
                        ELSE "low"

\* 84.9 has been classified, as high.
C3_Witness ==
  /\ probe.fn = "determine_priority"
  /\ probe.heat_score = 849
  /\ probe.priority = "high"

\* C4: a call that returns writes exactly when the score or the priority it
\* computed differs from the stored one: then the row gets both values and
\* the log one more score_updated row, and nothing else changes; otherwise
\* neither the table nor the log changes.
C4_WritesOnlyOnChange ==
  [][Returned(last_call') =>
       LET id == last_call'.id
           old == opportunities[id]
       IN  IF \/ last_call'.heat_score # old.heat_score
              \/ last_call'.priority # old.priority
           THEN /\ opportunities'[id].heat_score = last_call'.heat_score
                /\ opportunities'[id].priority = last_call'.priority
                /\ \A o \in OppIds \ {id} : opportunities'[o] = opportunities[o]
                /\ activity_log' =
                     [activity_log EXCEPT ![<<id, "score_updated">>] = @ + 1]
           ELSE /\ opportunities' = opportunities
                /\ activity_log' = activity_log]_vars

\* A call that found nothing to change, on a row an earlier call had written.
C4_Witness ==
  /\ Returned(last_call)
  /\ ~last_call.wrote
  /\ activity_log[<<last_call.id, "score_updated">>] >= 1

\* C5: the heat score is 0.35 keyword + 0.25 recency + 0.15 article count
\* + 0.15 severity + 0.10 entity size, kept within 0..100 and rounded to the
\* nearest tenth; keyword 80.0, detected today, 10 articles, a legal issue
\* and a population of 600000 give 93.0, urgent.
C5_WeightedSum ==
  (probe.fn = "calculate_heat_score" /\ probe.heat_score # Null)
    => LET keyword == probe.opportunity.heat_score
           recency == 10 * calculate_recency_score(probe.opportunity.first_detected,
                                                   probe.today)
           article_volume ==
             10 * calculate_article_count_score(
                    IF probe.articles = 0 THEN 1 ELSE probe.articles)
           severity == 10 * calculate_severity_score(probe.opportunity.issue_type)
           entity_size == IF probe.entity.exists
                          THEN 10 * calculate_entity_size_score(probe.entity)
                          ELSE 500
           sum == 35 * keyword + 25 * recency + 15 * article_volume
                    + 15 * severity + 10 * entity_size
           clamped == IF sum > 100000 THEN 100000 ELSE IF sum < 0 THEN 0 ELSE sum
           heat == Val(probe.heat_score)
       IN  /\ 100 * heat - clamped <= 50
           /\ clamped - 100 * heat <= 50
           /\ heat \in 0..1000
           /\ (/\ keyword = 800
               /\ probe.opportunity.first_detected = Some(probe.today)
               /\ probe.articles = 10
               /\ probe.opportunity.issue_type = "legal"
               /\ probe.entity.exists
               /\ probe.entity.population = Some(600000)
               /\ probe.entity.annual_budget = Null)
              => (heat = 930 /\ probe.priority = "urgent")

\* The example of the claim has been computed.
C5_Witness ==
  /\ probe.fn = "calculate_heat_score"
  /\ probe.opportunity.heat_score = 800
  /\ probe.opportunity.first_detected = Some(probe.today)
  /\ probe.articles = 10
  /\ probe.opportunity.issue_type = "legal"
  /\ probe.entity = [exists |-> TRUE, population |-> Some(600000),
                     annual_budget |-> Null]
  /\ probe.heat_score = Some(930)
  /\ probe.priority = "urgent"

\* C6: the count recalculate_all_scores returns is the number of
\* opportunities for which it executed the UPDATE.
C6_CountIsWrites ==
  (last_call.op = "recalculate_all_scores" /\ last_call.outcome = "returned")
    => last_call.updated_count = Cardinality(last_call.written)

\* C7: a failure on one record does not stop the batch: no exception leaves
\* recalculate_all_scores and every other listed record is processed.
C7_NeverAborts ==
  last_call.op = "recalculate_all_scores"
    => /\ last_call.outcome # "raised"
       /\ last_call.listed \ {last_call.faulty} \subseteq last_call.visited

\* C8: a call with an id that has no row answers not-found and leaves the
\* opportunity table and the activity log as they were.
C8_NotFoundNoWrite ==
  [][(/\ last_call'.op = "update_opportunity_score"
      /\ ~(last_call'.id \in OppIds /\ opportunities[last_call'.id].exists))
     => /\ last_call'.outcome = "not_found"
        /\ opportunities' = opportunities
        /\ activity_log' = activity_log]_vars

\* A not-found answer on a store that holds rows and log records.
C8_Witness ==
  /\ last_call.op = "update_opportunity_score"
  /\ last_call.outcome = "not_found"
  /\ NumOpportunities >= 1
  /\ \E o \in OppIds : activity_log[<<o, "score_updated">>] >= 1

\* C9: whatever the interleaving of recalculations with each other and with
\* the update route, an opportunity a recalculation has written holds a
\* priority that is the classification of its heat score.
C9_SelfConsistentPair ==
  \A o \in OppIds :
    (opportunities[o].exists /\ activity_log[<<o, "score_updated">>] >= 1)
      => Consistent(opportunities[o])

\* C10: the keyword value every call feeds into the weighted sum is the
\* keyword score discovery attached to the opportunity when it created it.
C10_KeywordIsCreationScore ==
  Returned(last_call) => last_call.keyword_in = Val(discovered[last_call.id])

\* C21: the recency score is a step function of the whole days since
\* first_detected: 100 up to 7 days, 90 up to 14, 75 up to 30, 50 up to 60,
\* 30 up to 90, 10 beyond, each boundary day on the higher step; for an
\* unchanged opportunity it never increases as time passes.
C21_RecencySteps ==
  [][(probe'.fn = "calculate_recency_score" /\ probe'.score # Null) =>
       /\ (probe'.first_detected # Null) =>
            LET days == probe'.today - Val(probe'.first_detected)
            IN  Val(probe'.score) =
                  IF days <= 7 THEN 100
                  ELSE IF days <= 14 THEN 90
                  ELSE IF days <= 30 THEN 75
                  ELSE IF days <= 60 THEN 50
                  ELSE IF days <= 90 THEN 30
                  ELSE 10
       /\ (probe.score # Null) => Val(probe'.score) <= Val(probe.score)
    ]_vars

\* The 90th day has come and the score is still 30.
C21_Witness ==
  /\ probe.fn = "calculate_recency_score"
  /\ probe.first_detected = Some(2)
  /\ probe.today = 92
  /\ probe.score = Some(30)

\* C22: the article-volume score is a step function of the number of linked
\* articles: 100 from 10, 80 from 5, 60 from 3, 40 from 2, else 20; linking
\* one more article never lowers it, and no linked article scores the same
\* as one.
C22_ArticleVolumeSteps ==
  [][(probe'.fn = "article_volume" /\ probe'.scored \in OppIds) =>
       LET o == probe'.scored
           n == probe'.linked[o]
           score == Val(probe'.scores[o])
       IN  /\ score = IF n >= 10 THEN 100
                      ELSE IF n >= 5 THEN 80
                      ELSE IF n >= 3 THEN 60
                      ELSE IF n >= 2 THEN 40
                      ELSE 20
           /\ (probe.scores[o] # Null) => score >= Val(probe.scores[o])
           /\ (n = 0) => score = article_volume_score(1)
    ]_vars

\* One opportunity reached its tenth article and scores 100 while the other
\* was scored with none.
C22_Witness ==
  /\ probe.fn = "article_volume"
  /\ probe.linked[1] = 10
  /\ probe.scores[1] = Some(100)
  /\ probe.linked[2] = 0
  /\ probe.scores[2] = Some(20)

\* The keywords of the probed table found in the probed text.
MatchedIn == {i \in DOMAIN probe.keywords : probe.text[i] > 0}

\* What keyword i adds to its category: weight times occurrences in the
\* news scorer, the weight once in the RFP classifier.
CategoryContribution(i) ==
  IF probe.text[i] = 0 THEN 0
  ELSE IF probe.fn = "issue_type" THEN probe.keywords[i].weight * probe.text[i]
  ELSE probe.keywords[i].weight

RECURSIVE CategoryTotalFrom(_, _)
CategoryTotalFrom(category, i) ==
  IF i > Len(probe.keywords) THEN 0
  ELSE (IF probe.keywords[i].category = category THEN CategoryContribution(i) ELSE 0)
         + CategoryTotalFrom(category, i + 1)

\* Where a matched category is first met when the table is iterated.
FirstMet(category) ==
  CHOOSE i \in MatchedIn :
    /\ probe.keywords[i].category = category
    /\ \A j \in MatchedIn : probe.keywords[j].category = category => i <= j

\* C23: the inferred category is the one whose matched keywords contribute
\* the highest total; of several categories with the highest total it is the
\* one met first when the keyword table is iterated (descending weight);
\* with no keyword matched it is None.  For issue_type of the news scorer
\* and for the category of the RFP classifier.
C23_CategoryInference ==
  (probe.fn \in {"issue_type", "primary_category"} /\ probe.done) =>
    IF MatchedIn = {} THEN probe.category = None
    ELSE /\ \E i \in MatchedIn : probe.keywords[i].category = probe.category
         /\ \A j \in MatchedIn :
              LET other == probe.keywords[j].category
              IN  /\ CategoryTotalFrom(other, 1) <= CategoryTotalFrom(probe.category, 1)
                  /\ (/\ other # probe.category
                      /\ CategoryTotalFrom(other, 1) = CategoryTotalFrom(probe.category, 1))
                       => FirstMet(probe.category) < FirstMet(other)

\* The news scorer has inferred a category that tied with another for the
\* highest total, and the RFP classifier has texts with such a tie too.
C23_Witness ==
  /\ probe.fn = "issue_type"
  /\ probe.done
  /\ \E j \in MatchedIn :
       /\ probe.keywords[j].category # probe.category
       /\ CategoryTotalFrom(probe.keywords[j].category, 1)
            = CategoryTotalFrom(probe.category, 1)
  /\ \E t \in RfpTexts :
       /\ calculate_relevance(t).category = "software"
       /\ RfpCategoryScore(t, "software") = RfpCategoryScore(t, "data")

\* C24: the matches score_text returns are in descending order of the
\* magnitude of their contribution: of two adjacent matches the earlier has
\* the greater or equal absolute score, so a strongly negative keyword
\* comes before a weakly positive one.
C24_SortedByMagnitude ==
  (probe.fn = "score_text" /\ probe.result # Null) =>
    LET matches == Val(probe.result).matches
        Abs(x) == IF x < 0 THEN -x ELSE x
    IN  \A m \in 1..(Len(matches) - 1) :
          Abs(matches[m].score) >= Abs(matches[m + 1].score)

\* The next call on opportunity 1 would write nothing and log nothing.
Settled ==
  \A half_up \in ConvergeSides :
    LET r == update_opportunity_score(opportunities, activity_log, 1, FALSE, half_up)
    IN  ~r.wrote /\ r.opps = opportunities /\ r.log = activity_log

\* C25: with the data and the day fixed, repeated update_opportunity_score
\* calls on one opportunity converge from any stored score 0..100: the
\* stored scores never change direction, and after finitely many calls
\* every further call writes nothing and logs nothing.
C25_Converges ==
  /\ [][~(probe.trend = "up"
            /\ opportunities'[1].heat_score < opportunities[1].heat_score)
        /\ ~(probe.trend = "down"
            /\ opportunities'[1].heat_score > opportunities[1].heat_score)]_vars
  /\ <>[]Settled

\* A row that started at 10.0 has been rewritten upwards at least five times
\* and has settled.
C25_Witness ==
  /\ probe.fn = "converge"
  /\ probe.trend = "up"
  /\ activity_log[<<1, "score_updated">>] >= 5
  /\ opportunities[1].heat_score > 700
  /\ Settled

\* C26: every opportunity process_article created is stored with the
\* priority that classifies its stored heat score, from its creation on.
C26_CreatedConsistent ==
  \A o \in OppIds :
    (opportunities[o].exists /\ discovered[o] # Null)
      => Consistent(opportunities[o])

\* The step is a call of update_opportunity_score on opportunity_id.
ScoreCallOn(opportunity_id) ==
  /\ last_call'.op = "update_opportunity_score"
  /\ last_call'.id = opportunity_id
  /\ last_call' # last_call

\* C27: a call of update_opportunity_score changes at most heat_score,
\* priority and last_activity of its target and appends at most one
\* activity-log record, a score_updated one of the target; the target's
\* status, issue_type, first_detected, entity_id and notes, its linked
\* articles, the entity records and every other opportunity stay as they
\* were.
C27_ScoreUpdateFrame ==
  [][
      \A id \in CallIds :
        ScoreCallOn(id) =>
          /\ \A o \in OppIds \ {id} : opportunities'[o] = opportunities[o]
          /\ id \in OppIds =>
               \A f \in DOMAIN opportunities[id] \
                        {"heat_score", "priority", "last_activity"} :
                 opportunities'[id][f] = opportunities[id][f]
          /\ entities' = entities
          /\ articles' = articles
          /\ opportunity_articles' = opportunity_articles
          /\ \A k \in DOMAIN activity_log :
               \/ activity_log'[k] = activity_log[k]
               \/ /\ k = <<id, "score_updated">>
                  /\ activity_log'[k] = activity_log[k] + 1
    ]_vars

\* A call has rewritten the score of an opportunity whose status and notes
\* had been edited, next to another opportunity.
C27_Witness ==
  /\ Returned(last_call)
  /\ last_call.wrote
  /\ opportunities[last_call.id].status = "contacted"
  /\ opportunities[last_call.id].heat_score = last_call.heat_score
  /\ activity_log[<<last_call.id, "score_updated">>] >= 1
  /\ \E o \in OppIds \ {last_call.id} : opportunities[o].exists

\* The rows of the rfps table.
StoredRfps == {probe.rfps[i] : i \in {j \in RfpIds : probe.rfps[j].exists}}

\* C28: in every stored RFP is_relevant and relevance_score agree under the
\* threshold of the classifier that wrote them last: is_relevant is 1 exactly
\* if the score is at least 2.0 after save_rfps or a manual add, and exactly
\* if it is at least 40 after rescore_all_rfps; is_relevant, relevance_score
\* and category have been written the same number of times.
C28_RelevanceConsistent ==
  probe.fn = "rfps" =>
    \A row \in StoredRfps :
      /\ row.scale \in {"keyword", "blended"}
      /\ row.scale = "keyword" =>
           (row.is_relevant = 1 <=> row.relevance_score >= 200)
      /\ row.scale = "blended" =>
           (row.is_relevant = 1 <=> row.relevance_score >= 4000)
      /\ \A c, d \in RelevanceColumns : row.written[c] = row.written[d]

\* A rescored row that is not relevant with a score the keyword threshold
\* would accept, next to a saved row that is relevant with a score the
\* blended threshold would reject, after the update route wrote a row.
C28_Witness ==
  /\ probe.fn = "rfps"
  /\ \E row \in StoredRfps :
       /\ row.scale = "blended"
       /\ row.is_relevant = 0
       /\ row.relevance_score >= 200
       /\ row.status = "reviewing"
  /\ \E row \in StoredRfps :
       /\ row.scale = "keyword"
       /\ row.is_relevant = 1
       /\ row.relevance_score < 4000

\* The combined score the scorers of one record of a rescoring run give.
FinalScoreOf(rfp_id, outcomes) ==
  score_rfp(Val(probe.rfps[rfp_id].title).kw_score,
            outcomes[rfp_id].semantic, outcomes[rfp_id].external).final_score

\* C29: rescore_all_rfps gets past the failure of a record: every record
\* whose scoring and update did not fail is rescored, whatever failed
\* before it, and a record that failed is left as it was; the statistics
\* returned have rescored <= total and high + medium + low = rescored, each
\* rescored record counted in one band (>= 70 high, >= 40 medium, else low).
C29_RescoreIsolation ==
  [][
      (probe'.fn = "rfps" /\ probe'.rescores = probe.rescores + 1) =>
        LET stats == last_call'.stats
            outcomes == last_call'.outcomes
            listed == {i \in RfpIds : probe.rfps[i].exists}
            done == {i \in listed : outcomes[i].fault = "none"}
        IN  /\ DOMAIN outcomes = listed
            /\ stats.total = Cardinality(listed)
            /\ stats.rescored = Cardinality(done)
            /\ stats.rescored <= stats.total
            /\ stats.high_relevance + stats.medium_relevance
                 + stats.low_relevance = stats.rescored
            /\ stats.high_relevance =
                 Cardinality({i \in done : FinalScoreOf(i, outcomes) >= 7000})
            /\ stats.medium_relevance =
                 Cardinality({i \in done : /\ FinalScoreOf(i, outcomes) >= 4000
                                           /\ FinalScoreOf(i, outcomes) < 7000})
            /\ stats.low_relevance =
                 Cardinality({i \in done : FinalScoreOf(i, outcomes) < 4000})
            /\ \A i \in done :
                 /\ probe'.rfps[i].relevance_score = FinalScoreOf(i, outcomes)
                 /\ probe'.rfps[i].written.relevance_score
                      = probe.rfps[i].written.relevance_score + 1
            /\ \A i \in RfpIds \ done : probe'.rfps[i] = probe.rfps[i]
    ]_vars

\* A run over two records in which one failed and the other was rescored
\* into the high band.
C29_Witness ==
  /\ probe.fn = "rfps"
  /\ last_call.op = "rescore_all_rfps"
  /\ last_call.stats.total = 2
  /\ last_call.stats.rescored = 1
  /\ last_call.stats.high_relevance = 1
  /\ \E i \in RfpIds :
       /\ last_call.outcomes[i].fault = "update"
       /\ probe.rfps[i].scale = "keyword"
  /\ \E i \in RfpIds :
       /\ probe.rfps[i].scale = "blended"
       /\ probe.rfps[i].relevance_score >= 7000

\* The loop threads that are in the body of the loop, having found running
\* set.
InLoopBody == {t \in ThreadIds : probe.loops[t].pc = "tasks"}

\* C30: whatever start() and stop() calls have been made, at most one loop
\* thread of the scheduler is executing the loop body; a stop() whose join
\* timed out during the thread's sleep, followed by start(), does not leave
\* two.
C30_OneLoopThread ==
  probe.fn = "scheduler" => Cardinality(InLoopBody) <= 1

====
